---------------------------- MODULE Spec2Model ----------------------------
(***************************************************************************)
(* A model of the VTuber discovery pipeline of app/scrapers: the name      *)
(* matchers and the classifier of vtuber_filters.py, the staged search of  *)
(* twitch_scraper.py, youtube_scraper.py and base_scraper.py, the result   *)
(* aggregator (remove_duplicates, sort_by_relevance) and the orchestrator  *)
(* search_vtuber of scrapers/__init__.py.                                  *)
(*                                                                         *)
(* Text is modelled by TLA+ strings, which TLC treats as sequences of      *)
(* characters.  Scores are kept in HALF POINTS (the integer 2*s stands for *)
(* the Python number s), because the code adds 0.5 bonuses: Pts(n) is n    *)
(* points and Half is 0.5.                                                 *)
(***************************************************************************)
EXTENDS Integers, Sequences, FiniteSets, TLC

Pts(n) == 2 * n

Half == Pts(1) \div 2

Max2(a, b) == IF a >= b THEN a ELSE b

(***************************************************************************)
(* str methods and re calls the code uses.                                 *)
(***************************************************************************)
Ch(s, i) == SubSeq(s, i, i)

UpperChars == "ABCDEFGHIJKLMNOPQRSTUVWXYZ"

LowerChars == "abcdefghijklmnopqrstuvwxyz"

DigitChars == "0123456789"

\* Non-ASCII letters of the texts the model uses; \w matches them.  The
\* character "¤" stands for a character of the kana / CJK range
\* [\u3040-\u309F\u30A0-\u30FF\u4E00-\u9FAF], which the module's strings cannot hold.
KanaChars == "¤"

OtherLetterChars == "à"

InStr(c, chars) == \E i \in 1..Len(chars) : Ch(chars, i) = c

IsAsciiLetter(c) == InStr(c, LowerChars) \/ InStr(c, UpperChars)

\* \w of a str pattern: letters, digits and the underscore.
IsWordChar(c) ==
    \/ IsAsciiLetter(c)
    \/ InStr(c, DigitChars)
    \/ c = "_"
    \/ InStr(c, KanaChars)
    \/ InStr(c, OtherLetterChars)

\* \s, and what str.strip() and str.split() take for whitespace.
IsSpace(c) == c = " "

LowerCh(c) ==
    IF InStr(c, UpperChars)
    THEN Ch(LowerChars, CHOOSE i \in 1..26 : Ch(UpperChars, i) = c)
    ELSE c

\* str.lower()
RECURSIVE Lower(_)
Lower(s) == IF s = "" THEN "" ELSE LowerCh(Ch(s, 1)) \o Lower(Tail(s))

\* `sub in text`
Contains(text, sub) ==
    \E i \in 0..(Len(text) - Len(sub)) : SubSeq(text, i + 1, i + Len(sub)) = sub

\* any(kw in text for kw in kws)
AnyIn(kws, text) == \E kw \in kws : Contains(text, kw)

RECURSIVE LStrip(_)
LStrip(s) == IF s # "" /\ IsSpace(Ch(s, 1)) THEN LStrip(Tail(s)) ELSE s

RECURSIVE RStrip(_)
RStrip(s) ==
    IF s # "" /\ IsSpace(Ch(s, Len(s))) THEN RStrip(SubSeq(s, 1, Len(s) - 1)) ELSE s

\* str.strip()
Strip(s) == RStrip(LStrip(s))

\* The first word of a string that does not start with whitespace.
RECURSIVE FirstWord(_)
FirstWord(s) ==
    IF s = "" \/ IsSpace(Ch(s, 1)) THEN "" ELSE Ch(s, 1) \o FirstWord(Tail(s))

\* str.split(): the words between runs of whitespace, in order.
RECURSIVE Split(_)
Split(s) ==
    LET t == LStrip(s)
        w == FirstWord(t)
    IN  IF t = "" THEN << >> ELSE <<w>> \o Split(SubSeq(t, Len(w) + 1, Len(t)))

\* re.sub(r'[^\w\s]', '', s)
RECURSIVE RemovePunct(_)
RemovePunct(s) ==
    IF s = "" THEN ""
    ELSE (IF IsWordChar(Ch(s, 1)) \/ IsSpace(Ch(s, 1)) THEN Ch(s, 1) ELSE "")
         \o RemovePunct(Tail(s))

\* re.compile(r'[^\w\s]').findall(s) is not empty
HasPunct(s) == \E i \in 1..Len(s) : ~IsWordChar(Ch(s, i)) /\ ~IsSpace(Ch(s, i))

\* re.search of the kana / CJK range
HasJapanese(s) == \E i \in 1..Len(s) : InStr(Ch(s, i), KanaChars)

\* s[:n]
Prefix(s, n) == SubSeq(s, 1, IF Len(s) < n THEN Len(s) ELSE n)

\* re.search(r'[A-Za-z]+' + suffix, text, re.IGNORECASE), given the text in
\* lower case: an ASCII letter directly followed by the suffix, whatever the
\* case of either.
MatchesSuffixPattern(text_lower, suffix) ==
    LET s == Lower(suffix)
    IN  \E i \in 1..(Len(text_lower) - Len(s)) :
            /\ IsAsciiLetter(Ch(text_lower, i))
            /\ SubSeq(text_lower, i + 1, i + Len(s)) = s

\* re.search(prefix + r'[A-Za-z]+', text, re.IGNORECASE), given the text in
\* lower case.
MatchesPrefixPattern(text_lower, prefix) ==
    LET s == Lower(prefix)
    IN  \E i \in 1..(Len(text_lower) - Len(s)) :
            /\ SubSeq(text_lower, i, i + Len(s) - 1) = s
            /\ IsAsciiLetter(Ch(text_lower, i + Len(s)))

Range(f) == {f[i] : i \in DOMAIN f}

(***************************************************************************)
(* VTuberFilters: the keyword lists of __init__.                           *)
(***************************************************************************)
vtuber_keywords_high ==
    {"vtuber", "virtual youtuber", "virtual streamer", "vtubing",
     "live2d", "rigging", "anime avatar", "virtual avatar",
     "virtual idol", "virtual personality", "virtual character",
     "vtuber italiana", "virtual youtuber italiana", "streamer virtuale",
     "avatar virtuale", "personaggio virtuale", "idol virtuale"}

vtuber_keywords_medium ==
    {"anime", "kawaii", "moe", "otaku", "weeb", "japanese",
     "virtual", "avatar", "character", "model", "streamer",
     "anime italiano", "kawaii italiano", "otaku italiano",
     "personaggio", "modello", "streamer italiano"}

vtuber_indicators ==
    {"vtuber", "virtual youtuber", "virtual streamer", "anime avatar",
     "live2d", "rigging", "model", "character", "vtubing",
     "virtual idol", "virtual personality", "virtual character", "anime streamer",
     "vtuber italiana", "virtual youtuber italiana", "streamer virtuale",
     "avatar anime", "personaggio virtuale", "idol virtuale", "vtubing italiano"}

negative_keywords ==
    {"irl", "face cam", "real person", "no avatar", "camera",
     "real streamer", "non-vtuber", "human streamer",
     "persona reale", "faccia vera", "senza avatar", "streamer reale",
     "non vtuber", "streamer umano", "webcam", "faccia in diretta"}

vtuber_agencies ==
    {"hololive", "nijisanji", "vshojo", "vspo", "anycolor",
     "774inc", "upd8", "reality", "neo-porte", "v4mirai",
     "kamitsubaki", "noripro", "sugar lyric", "prism project",
     "vtuber italia", "vtuber italiani", "virtual youtuber italia",
     "anime italia", "otaku italia", "vtuber community italia",
     "italian vtuber", "italy vtuber", "italian virtual youtuber"}

italian_terms ==
    {"italiana", "italiano", "italia", "roma", "milano", "napoli",
     "torino", "bologna", "firenze", "venezia", "genova", "palermo",
     "città", "regione", "provincia", "comune"}

english_terms ==
    {"english", "british", "american", "canadian", "australian",
     "uk", "usa", "canada", "australia", "england", "london",
     "new york", "los angeles", "toronto", "sydney"}

\* name_patterns, as (kind, literal part): "suffix" is r'[A-Za-z]+' followed by
\* the literal, "prefix" is the literal followed by r'[A-Za-z]+'.
name_patterns ==
    <<  <<"suffix", "_ITA">>, <<"suffix", "_Italia">>, <<"suffix", "_Italian">>,
        <<"prefix", "ITA_">>, <<"prefix", "Italia_">>, <<"prefix", "Italian_">>,
        <<"suffix", "_EN">>, <<"suffix", "_English">>, <<"suffix", "_UK">>,
        <<"prefix", "EN_">>, <<"prefix", "English_">>, <<"prefix", "UK_">>,
        <<"suffix", "_VT">>, <<"suffix", "_Vtuber">>, <<"suffix", "_Virtual">>,
        <<"prefix", "VT_">>, <<"prefix", "Vtuber_">>, <<"prefix", "Virtual_">>  >>

\* The pattern as the str the code tests with `'_ITA' in pattern`.
PatternText(pat) ==
    IF pat[1] = "suffix" THEN "[A-Za-z]+" \o pat[2] ELSE pat[2] \o "[A-Za-z]+"

PatternMatches(pat, text_lower) ==
    IF pat[1] = "suffix"
    THEN MatchesSuffixPattern(text_lower, pat[2])
    ELSE MatchesPrefixPattern(text_lower, pat[2])

(***************************************************************************)
(* VTuberFilters.is_name_match: the strict matcher.                        *)
(***************************************************************************)
\* is_name_match without the check that the channel name is contained in the
\* search name.
is_name_match_one_way(channel_name, search_name) ==
    LET channel_lower == Strip(Lower(channel_name))
        search_lower == Strip(Lower(search_name))
        search_words == Split(search_lower)
        channel_words == Split(channel_lower)
        matching_words ==
            Cardinality({i \in 1..Len(search_words) :
                \E j \in 1..Len(channel_words) :
                    Contains(channel_words[j], search_words[i])})
    IN  \/ channel_lower = search_lower
        \/ Contains(channel_lower, search_lower)
        \/ /\ Len(search_words) > 1
           /\ 10 * matching_words >= 6 * Len(search_words)
        \/ /\ Len(search_words) = 1
           /\ \E j \in 1..Len(channel_words) :
                \/ Contains(channel_words[j], search_words[1])
                \/ Contains(search_words[1], channel_words[j])

is_name_match(channel_name, search_name) ==
    LET channel_lower == Strip(Lower(channel_name))
        search_lower == Strip(Lower(search_name))
        search_words == Split(search_lower)
        channel_words == Split(channel_lower)
        matching_words ==
            Cardinality({i \in 1..Len(search_words) :
                \E j \in 1..Len(channel_words) :
                    Contains(channel_words[j], search_words[i])})
    IN  \/ channel_lower = search_lower
        \/ Contains(channel_lower, search_lower)
        \/ Contains(search_lower, channel_lower)
        \* match_percentage >= 0.6
        \/ /\ Len(search_words) > 1
           /\ 10 * matching_words >= 6 * Len(search_words)
        \/ /\ Len(search_words) = 1
           /\ \E j \in 1..Len(channel_words) :
                \/ Contains(channel_words[j], search_words[1])
                \/ Contains(search_words[1], channel_words[j])

(***************************************************************************)
(* VTuberFilters.is_name_match_fuzzy.                                      *)
(***************************************************************************)
common_words_contained ==
    {"gamer", "tv", "official", "channel", "live", "stream", "youtube", "twitch"}

common_words_single ==
    {"gamer", "tv", "official", "channel", "live", "stream", "youtube", "twitch",
     "vtuber", "virtual"}

is_name_match_fuzzy(channel_name, search_name) ==
    LET channel_clean == RemovePunct(Lower(channel_name))
        search_clean == RemovePunct(Lower(search_name))
        search_words == Split(search_clean)
        channel_words == Split(channel_clean)
        matching_words ==
            Cardinality({i \in 1..Len(search_words) :
                \E j \in 1..Len(channel_words) :
                    Contains(channel_words[j], search_words[i])})
        Substantial(sw, cw) == Len(sw) >= 4 /\ Len(cw) >= 4
    IN  IF channel_clean = search_clean THEN TRUE
        ELSE IF Contains(channel_clean, search_clean)
                /\ search_clean \notin common_words_contained THEN TRUE
        ELSE IF Contains(search_clean, channel_clean) THEN TRUE
        \* match_percentage >= 0.7
        ELSE IF Len(search_words) > 1
                /\ 10 * matching_words >= 7 * Len(search_words) THEN TRUE
        ELSE IF Len(search_words) = 1
                /\ search_words[1] \in common_words_single THEN FALSE
        ELSE IF Len(search_words) = 1
                /\ \E j \in 1..Len(channel_words) :
                     /\ Substantial(search_words[1], channel_words[j])
                     /\ \/ Contains(channel_words[j], search_words[1])
                        \/ Contains(search_words[1], channel_words[j]) THEN TRUE
        ELSE \E i \in 1..Len(search_words) : \E j \in 1..Len(channel_words) :
                /\ Substantial(search_words[i], channel_words[j])
                /\ \/ Contains(channel_words[j], Prefix(search_words[i], 4))
                   \/ Contains(search_words[i], Prefix(channel_words[j], 4))

(***************************************************************************)
(* VTuberFilters.detect_language_focus: the score it returns.  Every       *)
(* matching name pattern whose text holds '_ITA', '_Italia' or '_Italian'  *)
(* adds 2 to the Italian score, every one that holds '_EN', '_English' or  *)
(* '_UK' adds 2 to the English score.                                      *)
(***************************************************************************)
IsItalianPattern(pat) ==
    LET p == PatternText(pat)
    IN  Contains(p, "_ITA") \/ Contains(p, "_Italia") \/ Contains(p, "_Italian")

IsEnglishPattern(pat) ==
    LET p == PatternText(pat)
    IN  /\ ~IsItalianPattern(pat)
        /\ Contains(p, "_EN") \/ Contains(p, "_English") \/ Contains(p, "_UK")

italian_score(text) ==
    LET text_lower == Lower(text)
    IN  (IF AnyIn(italian_terms, text_lower) THEN Pts(3) ELSE 0)
        + Pts(2) * Cardinality({i \in DOMAIN name_patterns :
              IsItalianPattern(name_patterns[i]) /\ PatternMatches(name_patterns[i], text_lower)})
        + (IF Contains(text_lower, "italiano") \/ Contains(text_lower, "italiana")
           THEN Pts(1) ELSE 0)

english_score(text) ==
    LET text_lower == Lower(text)
    IN  (IF AnyIn(english_terms, text_lower) THEN Pts(2) ELSE 0)
        + Pts(2) * Cardinality({i \in DOMAIN name_patterns :
              IsEnglishPattern(name_patterns[i]) /\ PatternMatches(name_patterns[i], text_lower)})
        + (IF \/ Contains(text_lower, "english")
              \/ Contains(text_lower, "british")
              \/ Contains(text_lower, "american")
           THEN Pts(1) ELSE 0)

detect_language_focus(text) == Max2(italian_score(text), english_score(text))

(***************************************************************************)
(* VTuberFilters.calculate_vtuber_score: the score of a candidate record.  *)
(* A candidate holds the fields the code reads from the merged channel /   *)
(* user record: display_name (snippet.title on YouTube), title,            *)
(* description (snippet.description on YouTube), and the signals of        *)
(* calculate_adaptive_score.                                               *)
(***************************************************************************)
non_vtuber_indicators ==
    {"gaming", "gameplay", "review", "tutorial", "news", "music", "cooking", "fitness"}

anime_terms == {"anime", "kawaii", "moe", "otaku", "weeb", "japanese", "manga"}

streaming_terms == {"streamer", "content creator", "live", "gaming", "chat"}

ScoreName(c) == Lower(c.display_name)

\* "YouTube doesn't have separate title"
ScoreTitle(c, platform) == IF platform = "youtube" THEN "" ELSE Lower(c.title)

ScoreDescription(c) == Lower(c.description)

AllText(c, platform) ==
    Lower(ScoreName(c) \o " " \o ScoreTitle(c, platform) \o " " \o ScoreDescription(c))

HasVtuberKeyword(text) == AnyIn(vtuber_keywords_high \cup vtuber_keywords_medium, text)

\* calculate_vtuber_score without its three penalties.
calculate_vtuber_score_no_penalty(c, platform) ==
    LET display_name == ScoreName(c)
        title == ScoreTitle(c, platform)
        description == ScoreDescription(c)
        all_text == AllText(c, platform)
    IN    (IF AnyIn(vtuber_keywords_high, display_name) THEN Pts(5) ELSE 0)
        + (IF AnyIn(vtuber_keywords_high, title) THEN Pts(4) ELSE 0)
        + (IF AnyIn(vtuber_keywords_medium, display_name) THEN Pts(2) ELSE 0)
        + (IF AnyIn(vtuber_keywords_medium, title) THEN Pts(1) ELSE 0)
        + (IF AnyIn(vtuber_indicators, description) THEN Pts(4) ELSE 0)
        + (IF AnyIn(vtuber_agencies, all_text) THEN Pts(6) ELSE 0)
        + detect_language_focus(all_text)
        + (IF AnyIn(anime_terms, all_text) THEN Pts(1) ELSE 0)
        + (IF AnyIn(streaming_terms, all_text) THEN Half ELSE 0)
        + (IF HasPunct(display_name) THEN Pts(1) ELSE 0)
        + (IF HasJapanese(all_text) THEN Pts(1) ELSE 0)

\* calculate_vtuber_score with the "gamer" penalty skipped when the content
\* penalty was applied.
calculate_vtuber_score_one_penalty(c, platform) ==
    LET display_name == ScoreName(c)
        all_text == AllText(c, platform)
    IN    calculate_vtuber_score_no_penalty(c, platform)
        - (IF AnyIn(negative_keywords, all_text) THEN Pts(5) ELSE 0)
        - (IF ~HasVtuberKeyword(all_text)
           THEN IF AnyIn(non_vtuber_indicators, all_text) THEN Pts(3)
                ELSE IF Contains(display_name, "gamer") THEN Pts(2) ELSE 0
           ELSE 0)

calculate_vtuber_score(c, platform) ==
    LET display_name == ScoreName(c)
        title == ScoreTitle(c, platform)
        description == ScoreDescription(c)
        all_text == AllText(c, platform)
    IN    (IF AnyIn(vtuber_keywords_high, display_name) THEN Pts(5) ELSE 0)
        + (IF AnyIn(vtuber_keywords_high, title) THEN Pts(4) ELSE 0)
        + (IF AnyIn(vtuber_keywords_medium, display_name) THEN Pts(2) ELSE 0)
        + (IF AnyIn(vtuber_keywords_medium, title) THEN Pts(1) ELSE 0)
        + (IF AnyIn(vtuber_indicators, description) THEN Pts(4) ELSE 0)
        + (IF AnyIn(vtuber_agencies, all_text) THEN Pts(6) ELSE 0)
        + detect_language_focus(all_text)
        - (IF AnyIn(negative_keywords, all_text) THEN Pts(5) ELSE 0)
        - (IF AnyIn(non_vtuber_indicators, all_text) /\ ~HasVtuberKeyword(all_text)
           THEN Pts(3) ELSE 0)
        + (IF AnyIn(anime_terms, all_text) THEN Pts(1) ELSE 0)
        + (IF AnyIn(streaming_terms, all_text) THEN Half ELSE 0)
        + (IF HasPunct(display_name) THEN Pts(1) ELSE 0)
        - (IF Contains(Lower(display_name), "gamer") /\ ~HasVtuberKeyword(all_text)
           THEN Pts(2) ELSE 0)
        + (IF HasJapanese(all_text) THEN Pts(1) ELSE 0)

(***************************************************************************)
(* VTuberFilters.is_vtuber_channel: the fixed platform thresholds.         *)
(***************************************************************************)
is_vtuber_channel(c, platform) ==
    LET threshold == IF platform = "youtube" THEN Pts(2) + Half ELSE Pts(3)
    IN  calculate_vtuber_score(c, platform) >= threshold

(***************************************************************************)
(* VTuberFilters.calculate_adaptive_score: [score, threshold].             *)
(***************************************************************************)
verified_types == {"partner", "affiliate"}

calculate_adaptive_score(c, platform) ==
    LET base_score == calculate_vtuber_score(c, platform)
        platform_bonus ==
            IF platform = "twitch"
            THEN  (IF c.is_live THEN Pts(1) ELSE 0)
                + (IF c.broadcaster_type \in verified_types THEN Pts(2) ELSE 0)
                + (IF c.viewer_count > 100 THEN Pts(1) ELSE 0)
            ELSE  (IF c.subscriber_count > 1000 THEN Pts(1) ELSE 0)
        recent_bonus == IF c.discovered_recent THEN Half ELSE 0
    IN  [score |-> base_score + platform_bonus + recent_bonus,
         threshold |-> Pts(2)]

(***************************************************************************)
(* VTuberFilters.is_vtuber_channel_adaptive.                               *)
(***************************************************************************)
\* is_vtuber_channel_adaptive with the leniency of the YouTube branch taken
\* on every platform, at 1.0.
is_vtuber_channel_adaptive_lenient(c, platform) ==
    LET r == calculate_adaptive_score(c, platform)
    IN  r.score >= Pts(1)

is_vtuber_channel_adaptive(c, platform) ==
    LET r == calculate_adaptive_score(c, platform)
    IN  IF platform = "youtube" /\ r.score < r.threshold /\ r.score >= Pts(1) + Half
        THEN TRUE
        ELSE r.score >= r.threshold

(***************************************************************************)
(* The inputs of the model: the platforms, the searched names, and for     *)
(* each platform a catalogue of the accounts its API may return.  An       *)
(* account stands for its raw records (channel, stream, video, user        *)
(* detail), which agree on the fields they share; has_user tells whether   *)
(* the detail lookup (get_user_info) finds it.  A field the raw record     *)
(* lacks holds the default the code's .get() reads.                        *)
(***************************************************************************)
Platforms == {"twitch", "youtube"}

Queries == {"Kuro", "Kuro Neko", "Random"}

Account(id, display_name, title, description, tags, is_live, broadcaster_type, viewer_count, stat, has_user) ==
    [id |-> id, display_name |-> display_name, title |-> title,
     description |-> description, tags |-> tags, is_live |-> is_live,
     broadcaster_type |-> broadcaster_type, viewer_count |-> viewer_count,
     subscriber_count |-> 0, stat_subscriberCount |-> stat[1],
     stat_viewCount |-> stat[2], discovered_recent |-> FALSE, has_user |-> has_user]

TwitchCatalog ==
    { Account("t1", "Kuro_VT", "", "", <<"vtuber">>, TRUE, "", 50, <<0, 0>>, TRUE),
      Account("t2", "Kuro Vtuber", "anime stream", "hololive vtuber", <<"Anime">>,
              TRUE, "partner", 150, <<0, 0>>, TRUE),
      Account("t3", "RandomGamerTV", "", "fps gameplay tutorials", << >>,
              TRUE, "affiliate", 500, <<0, 0>>, TRUE),
      Account("t4", "Shiro", "virtual avatar debut", "", <<"VTuber", "English">>,
              TRUE, "", 120, <<0, 0>>, TRUE),
      Account("t5", "Kuro Virtual", "", "vtuber", <<"Virtual">>,
              FALSE, "", 0, <<0, 0>>, FALSE),
      Account("t6", "RandomGamerTV", "", "fps gameplay tutorials", << >>,
              FALSE, "partner", 0, <<0, 0>>, TRUE) }

YoutubeCatalog ==
    { Account("y1", "Kuro Ch. VTuber", "", "", << >>, FALSE, "", 0, <<5000, 20000>>, TRUE),
      Account("y2", "Kuro!", "", "live chat", << >>, FALSE, "", 0, <<0, 0>>, TRUE),
      Account("y3", "RandomGamerTV", "", "fps gameplay tutorials", << >>,
              FALSE, "", 0, <<2000, 0>>, TRUE),
      Account("y4", "Kuro", "", "hololive", << >>, FALSE, "", 0, <<0, 50000>>, TRUE),
      Account("y5", "Kuro Virtual", "", "vtuber", << >>, FALSE, "", 0, <<0, 0>>, FALSE),
      Account("y6", "RandomGamerTV", "", "fps gameplay tutorials", << >>,
              FALSE, "", 0, <<0, 50000>>, TRUE) }

Catalog(platform) == IF platform = "twitch" THEN TwitchCatalog ELSE YoutubeCatalog

\* A Twitch channel that is not live and neither partner nor affiliate, its
\* user detail found: what search_channels returns besides the catalogue.
TwitchOffline ==
    { Account("t7", "Kuro Virtual", "", "vtuber", <<"Virtual">>,
              FALSE, "", 0, <<0, 0>>, TRUE) }

Known(platform) ==
    IF platform = "twitch" THEN TwitchCatalog \cup TwitchOffline ELSE YoutubeCatalog

AllAccounts == TwitchCatalog \cup TwitchOffline \cup YoutubeCatalog

\* The longest list one request returns.
MaxBatch == 2

SeqsUpTo(S, n) == UNION {[1..k -> S] : k \in 0..n}

\* What one request returns: a non-success status (ok = FALSE), or the items.
Failure == [ok |-> FALSE, items |-> << >>]

Success(items) == [ok |-> TRUE, items |-> items]

Responses(platform, n) ==
    {Failure} \cup {Success(items) : items \in SeqsUpTo(Catalog(platform), n)}

\* Whether the items of a channel search carry the channel id as a string
\* under 'id': Twitch items do.
IdShapes(platform) == IF platform = "twitch" THEN {TRUE} ELSE BOOLEAN

(***************************************************************************)
(* The classifier and the matchers on the catalogue, each computed once.   *)
(***************************************************************************)
StrictMatchTable ==
    [q \in Queries |-> [c \in AllAccounts |-> is_name_match(c.display_name, q)]]

FuzzyMatchTable ==
    [q \in Queries |-> [c \in AllAccounts |-> is_name_match_fuzzy(c.display_name, q)]]

BaseScoreTable ==
    [p \in Platforms |-> [c \in Known(p) |-> calculate_vtuber_score(c, p)]]

AdaptiveTable ==
    [p \in Platforms |-> [c \in Known(p) |-> calculate_adaptive_score(c, p)]]

IsVtuberAdaptiveTable ==
    [p \in Platforms |-> [c \in Known(p) |-> is_vtuber_channel_adaptive(c, p)]]

IsVtuberTable ==
    [p \in Platforms |-> [c \in Known(p) |-> is_vtuber_channel(c, p)]]

(***************************************************************************)
(* The result records (DiscoveredPerformer).  Of the fields the code       *)
(* writes, the model keeps those that remove_duplicates and                *)
(* sort_by_relevance read.  A record built without 'search_stage' holds    *)
(* Absent there; one built without 'viewer_count', 'is_live', ... holds    *)
(* the default of the .get() that reads it.                                *)
(***************************************************************************)
Absent == "absent"

Performer(platform, c, is_live, viewer_count, score, stage) ==
    [platform |-> platform, id |-> c.id, name |-> c.display_name,
     is_live |-> is_live, broadcaster_type |-> c.broadcaster_type,
     viewer_count |-> viewer_count,
     subscriber_count |-> c.stat_subscriberCount,
     view_count |-> c.stat_viewCount,
     vtuber_score |-> score, search_stage |-> stage]

\* A descending sort that is not stable: an item goes in front of the items
\* of equal key that came before it.
UnstableSortDesc(items, keys) ==
    LET order[i \in 0..Len(items)] ==
            IF i = 0 THEN << >>
            ELSE LET before == order[i - 1]
                     k == Cardinality({j \in 1..Len(before) : keys[before[j]] > keys[i]})
                 IN  SubSeq(before, 1, k) \o <<i>> \o SubSeq(before, k + 1, Len(before))
    IN  [j \in 1..Len(items) |-> items[order[Len(items)][j]]]

\* sorted(items, key=..., reverse=True) and list.sort(key=..., reverse=True),
\* given the key of each item: descending, and stable (items with equal keys
\* keep their order).
StableSortDesc(items, keys) ==
    LET \* the positions of the sorted list, as indices into items
        order[i \in 0..Len(items)] ==
            IF i = 0 THEN << >>
            ELSE LET before == order[i - 1]
                     k == Cardinality({j \in 1..Len(before) : keys[before[j]] >= keys[i]})
                 IN  SubSeq(before, 1, k) \o <<i>> \o SubSeq(before, k + 1, Len(before))
    IN  [j \in 1..Len(items) |-> items[order[Len(items)][j]]]

(***************************************************************************)
(* The result aggregator.  TwitchScraper and BaseScraper hold the same     *)
(* remove_duplicates; TwitchScraper.sort_by_relevance is the 'twitch'      *)
(* branch of BaseScraper.sort_by_relevance.                                *)
(***************************************************************************)
\* remove_duplicates with `>=` for `>`: of the records tied for the highest
\* score, the last survives.
remove_duplicates_last_tie(results) ==
    LET unique_results[i \in 0..Len(results)] ==
            IF i = 0 THEN << >>
            ELSE LET seen == unique_results[i - 1]
                     vtuber == results[i]
                     at == {j \in 1..Len(seen) : seen[j].id = vtuber.id}
                 IN  IF at = {} THEN Append(seen, vtuber)
                     ELSE LET j == CHOOSE k \in at : TRUE
                          IN  IF vtuber.vtuber_score >= seen[j].vtuber_score
                              THEN [seen EXCEPT ![j] = vtuber]
                              ELSE seen
    IN  unique_results[Len(results)]

\* remove_duplicates that resolves the first collision only and returns the
\* rest of the list as it came.
remove_duplicates_first_collision(results) ==
    LET collisions == {j \in 1..Len(results) : \E i \in 1..(j - 1) : results[i].id = results[j].id}
    IN  IF collisions = {} THEN results
        ELSE LET j == CHOOSE k \in collisions : \A m \in collisions : k <= m
                 i == CHOOSE k \in 1..(j - 1) : results[k].id = results[j].id
                 drop == IF results[j].vtuber_score > results[i].vtuber_score THEN i ELSE j
             IN  SubSeq(results, 1, drop - 1) \o SubSeq(results, drop + 1, Len(results))

remove_duplicates(results) ==
    LET unique_results[i \in 0..Len(results)] ==
            IF i = 0 THEN << >>
            ELSE LET seen == unique_results[i - 1]
                     vtuber == results[i]
                     at == {j \in 1..Len(seen) : seen[j].id = vtuber.id}
                 IN  IF at = {} THEN Append(seen, vtuber)
                     ELSE LET j == CHOOSE k \in at : TRUE
                          IN  IF vtuber.vtuber_score > seen[j].vtuber_score
                              THEN [seen EXCEPT ![j] = vtuber]
                              ELSE seen
    IN  unique_results[Len(results)]

relevance_score(vtuber, platform) ==
    vtuber.vtuber_score
    + (IF platform = "twitch"
       THEN  (IF vtuber.is_live THEN Pts(2) ELSE 0)
           + (IF vtuber.broadcaster_type \in verified_types THEN Pts(1) ELSE 0)
           + (IF vtuber.viewer_count > 100 THEN Half ELSE 0)
       ELSE IF platform = "youtube"
       THEN  (IF vtuber.subscriber_count > 1000 THEN Pts(1) ELSE 0)
           + (IF vtuber.view_count > 10000 THEN Half ELSE 0)
       ELSE 0)
    + (IF vtuber.search_stage = "tags" THEN Pts(3) ELSE 0)

\* sort_by_relevance as sorted(results, key=relevance_score)[::-1]: records of
\* equal relevance come out in reverse order.
sort_by_relevance_reversed(results, platform) ==
    LET reversed == [i \in 1..Len(results) |-> results[Len(results) + 1 - i]]
    IN  StableSortDesc(reversed,
                       [i \in 1..Len(reversed) |-> relevance_score(reversed[i], platform)])

sort_by_relevance(results, platform) ==
    StableSortDesc(results, [i \in 1..Len(results) |-> relevance_score(results[i], platform)])

(***************************************************************************)
(* TwitchScraper.find_vtuber_by_tags.  The streams are those the tag       *)
(* queries return, one tag id after the other; a non-success answer to any *)
(* request of the stage (a tag query, a detail lookup, a tag lookup) makes *)
(* _make_request return None, the .get on it raises, and the stage's       *)
(* handler returns [].                                                     *)
(***************************************************************************)
tag_indicators == {"vtuber", "virtual", "live2d", "anime"}

vtuber_tag_present(c) ==
    \E i \in 1..Len(c.tags) : AnyIn(tag_indicators, Lower(c.tags[i]))

tag_name_matches(c, vtuber_name) ==
    LET stream_title == Lower(c.title)
        user_name == Lower(c.display_name)
        search_name == Lower(vtuber_name)
        words == Split(search_name)
    IN  \/ Contains(stream_title, search_name)
        \/ Contains(user_name, search_name)
        \/ Contains(search_name, user_name)
        \/ \E i \in 1..Len(words) : Contains(user_name, words[i])
        \/ \E i \in 1..Len(words) : Contains(stream_title, words[i])

TagAcceptTable ==
    [q \in Queries |-> [d \in BOOLEAN |-> [c \in TwitchCatalog |->
        c.has_user /\ vtuber_tag_present(c) /\ (tag_name_matches(c, q) \/ d)]]]

\* unique_vtubers[vtuber['id']] = vtuber: the last record of an id, at the
\* place of the first.
LastPerId(vtubers) ==
    LET unique[i \in 0..Len(vtubers)] ==
            IF i = 0 THEN << >>
            ELSE LET seen == unique[i - 1]
                     at == {j \in 1..Len(seen) : seen[j].id = vtubers[i].id}
                 IN  IF at = {} THEN Append(seen, vtubers[i])
                     ELSE [seen EXCEPT ![CHOOSE k \in at : TRUE] = vtubers[i]]
    IN  unique[Len(vtubers)]

find_vtuber_by_tags(vtuber_name, debug, streams) ==
    IF ~streams.ok THEN << >>
    ELSE LET vtubers[i \in 0..Len(streams.items)] ==
                 IF i = 0 THEN << >>
                 ELSE vtubers[i - 1] \o
                      (LET c == streams.items[i]
                       IN  IF TagAcceptTable[vtuber_name][debug][c]
                           THEN <<Performer("twitch", c, TRUE, c.viewer_count, Pts(10), Absent)>>
                           ELSE << >>)
             result == LastPerId(vtubers[Len(streams.items)])
         IN  StableSortDesc(result, [i \in 1..Len(result) |-> result[i].viewer_count])

(***************************************************************************)
(* TwitchScraper.find_vtuber_fuzzy.  As in every stage below, a            *)
(* non-success answer to a request of the stage ends it with [].           *)
(***************************************************************************)
twitch_find_vtuber_fuzzy(vtuber_name, channels) ==
    IF ~channels.ok THEN << >>
    ELSE LET vtubers[i \in 0..Len(channels.items)] ==
                 IF i = 0 THEN << >>
                 ELSE vtubers[i - 1] \o
                      (LET c == channels.items[i]
                       IN  IF /\ c.has_user
                              /\ FuzzyMatchTable[vtuber_name][c]
                              /\ IsVtuberAdaptiveTable["twitch"][c]
                           THEN <<Performer("twitch", c, FALSE, 0,
                                            AdaptiveTable["twitch"][c].score, "fuzzy")>>
                           ELSE << >>)
         IN  vtubers[Len(channels.items)]

(***************************************************************************)
(* TwitchScraper.find_vtuber_by_content.                                   *)
(***************************************************************************)
content_indicators ==
    {"vtuber", "virtual", "avatar", "anime", "live2d",
     "kawaii", "moe", "otaku", "japanese", "character"}

has_vtuber_content(c) ==
    \E indicator \in content_indicators :
        Contains(Lower(c.title), indicator) \/ Contains(Lower(c.description), indicator)

HasContentTable == [c \in AllAccounts |-> has_vtuber_content(c)]

content_threshold(threshold) == Max2(threshold - Pts(1), Pts(1))

\* find_vtuber_by_content without the `if not has_vtuber_content: continue`.
twitch_find_vtuber_by_content_any_text(vtuber_name, live_streams) ==
    IF ~live_streams.ok THEN << >>
    ELSE LET vtubers[i \in 0..Len(live_streams.items)] ==
                 IF i = 0 THEN << >>
                 ELSE vtubers[i - 1] \o
                      (LET c == live_streams.items[i]
                           r == AdaptiveTable["twitch"][c]
                       IN  IF /\ c.has_user
                              /\ StrictMatchTable[vtuber_name][c]
                              /\ r.score >= content_threshold(r.threshold)
                           THEN <<Performer("twitch", c, TRUE, c.viewer_count,
                                            r.score, "content")>>
                           ELSE << >>)
         IN  vtubers[Len(live_streams.items)]

twitch_find_vtuber_by_content(vtuber_name, live_streams) ==
    IF ~live_streams.ok THEN << >>
    ELSE LET vtubers[i \in 0..Len(live_streams.items)] ==
                 IF i = 0 THEN << >>
                 ELSE vtubers[i - 1] \o
                      (LET c == live_streams.items[i]
                           r == AdaptiveTable["twitch"][c]
                       IN  IF /\ c.has_user
                              /\ HasContentTable[c]
                              /\ StrictMatchTable[vtuber_name][c]
                              /\ r.score >= content_threshold(r.threshold)
                           THEN <<Performer("twitch", c, TRUE, c.viewer_count,
                                            r.score, "content")>>
                           ELSE << >>)
         IN  vtubers[Len(live_streams.items)]

(***************************************************************************)
(* TwitchScraper.find_vtuber_enhanced: the three stage lists, then         *)
(* remove_duplicates and sort_by_relevance.                                *)
(***************************************************************************)
\* find_vtuber_enhanced in which a stage that yields nothing ends the search
\* with nothing.
enhanced_results_all_or_nothing(tag_results, fuzzy_results, content_results, platform) ==
    IF << >> \in {tag_results, fuzzy_results, content_results} THEN << >>
    ELSE sort_by_relevance(remove_duplicates(tag_results \o fuzzy_results \o content_results),
                           platform)

enhanced_results(tag_results, fuzzy_results, content_results, platform) ==
    sort_by_relevance(remove_duplicates(tag_results \o fuzzy_results \o content_results),
                      platform)

(***************************************************************************)
(* TwitchScraper.find_vtuber, after the enhanced search returned nothing:  *)
(* the traditional search.  A non-success answer raises inside             *)
(* find_vtuber, whose handler returns [].                                  *)
(***************************************************************************)
twitch_traditional(vtuber_name, live_channels, all_channels) ==
    IF ~live_channels.ok \/ ~all_channels.ok THEN << >>
    ELSE LET Accepted(c) ==
                 /\ c.has_user
                 /\ StrictMatchTable[vtuber_name][c]
                 /\ IsVtuberTable["twitch"][c]
             live[i \in 0..Len(live_channels.items)] ==
                 IF i = 0 THEN << >>
                 ELSE live[i - 1] \o
                      (LET c == live_channels.items[i]
                       IN  IF Accepted(c)
                           THEN <<Performer("twitch", c, TRUE, 0,
                                            BaseScoreTable["twitch"][c], Absent)>>
                           ELSE << >>)
             live_vtubers == live[Len(live_channels.items)]
             processed_ids == {live_vtubers[i].id : i \in 1..Len(live_vtubers)}
             rest[i \in 0..Len(all_channels.items)] ==
                 IF i = 0 THEN << >>
                 ELSE rest[i - 1] \o
                      (LET c == all_channels.items[i]
                       IN  IF /\ c.id \notin processed_ids
                              /\ Accepted(c)
                              /\ c.broadcaster_type \in verified_types
                           THEN <<Performer("twitch", c, FALSE, 0,
                                            BaseScoreTable["twitch"][c], Absent)>>
                           ELSE << >>)
             vtubers == live_vtubers \o rest[Len(all_channels.items)]
         IN  StableSortDesc(vtubers, [i \in 1..Len(vtubers) |-> vtubers[i].vtuber_score])

(***************************************************************************)
(* BaseScraper._create_vtuber_object.                                      *)
(***************************************************************************)
create_vtuber_object(c, platform, score, stage) ==
    IF platform = "twitch"
    THEN Performer("twitch", c, c.is_live, c.viewer_count, score, stage)
    ELSE Performer("youtube", c, FALSE, 0, score, stage)

(***************************************************************************)
(* BaseScraper.find_vtuber_fuzzy, the fuzzy stage of YouTubeScraper.  It   *)
(* reads ch['id'] of each search item, hands the ids to get_user_info and  *)
(* joins item and detail on it.  ids_are_str tells whether the search      *)
(* items carry the channel id as a string there: YouTubeScraper's          *)
(* get_user_info does ','.join on the ids, which raises TypeError on       *)
(* anything else, and the handler of the stage returns [].                 *)
(***************************************************************************)
base_find_vtuber_fuzzy(vtuber_name, platform, channels, ids_are_str) ==
    IF ~channels.ok \/ channels.items = << >> THEN << >>
    ELSE IF ~ids_are_str THEN << >>
    ELSE LET vtubers[i \in 0..Len(channels.items)] ==
                 IF i = 0 THEN << >>
                 ELSE vtubers[i - 1] \o
                      (LET c == channels.items[i]
                       IN  IF /\ c.has_user
                              /\ FuzzyMatchTable[vtuber_name][c]
                              /\ IsVtuberAdaptiveTable[platform][c]
                           THEN <<create_vtuber_object(c, platform,
                                      AdaptiveTable[platform][c].score, "fuzzy")>>
                           ELSE << >>)
         IN  vtubers[Len(channels.items)]

(***************************************************************************)
(* YouTubeScraper.find_vtuber_by_content.  The videos are those the        *)
(* keyword queries return, one keyword after the other; a query that fails *)
(* returns no video.                                                       *)
(***************************************************************************)
youtube_find_vtuber_by_content(vtuber_name, videos) ==
    IF ~videos.ok THEN << >>
    ELSE LET vtubers[i \in 0..Len(videos.items)] ==
                 IF i = 0 THEN << >>
                 ELSE vtubers[i - 1] \o
                      (LET c == videos.items[i]
                       IN  IF /\ StrictMatchTable[vtuber_name][c]
                              /\ c.has_user
                              /\ IsVtuberAdaptiveTable["youtube"][c]
                           THEN <<Performer("youtube", c, FALSE, 0,
                                            AdaptiveTable["youtube"][c].score, "content")>>
                           ELSE << >>)
         IN  vtubers[Len(videos.items)]

(***************************************************************************)
(* BaseScraper.find_vtuber_enhanced on a YouTubeScraper.  The instance has *)
(* no find_vtuber_by_tags, so stage 1 is skipped.  Stage 3 is the call     *)
(* self.find_vtuber_by_content(vtuber_name, platform=platform,             *)
(* debug=debug), which reaches YouTubeScraper's override; a keyword the    *)
(* override does not take raises TypeError, and the handler of             *)
(* find_vtuber_enhanced returns [].                                        *)
(***************************************************************************)
content_call_keywords == {"platform", "debug"}

youtube_content_parameters == {"vtuber_name", "debug"}

content_call_raises == ~(content_call_keywords \subseteq youtube_content_parameters)

base_find_vtuber_enhanced(fuzzy_results, content_results, platform) ==
    IF content_call_raises THEN << >>
    ELSE enhanced_results(<< >>, fuzzy_results, content_results, platform)

(***************************************************************************)
(* YouTubeScraper.find_vtuber after the enhanced search returned nothing   *)
(* (the traditional search, cutoff 2.0), and find_vtuber_permissive        *)
(* (cutoff 1.5).  channel_info holds the details of the channels found.    *)
(***************************************************************************)
youtube_cutoff_search(vtuber_name, channels, cutoff, stage) ==
    LET vtubers[i \in 0..Len(channels.items)] ==
            IF i = 0 THEN << >>
            ELSE vtubers[i - 1] \o
                 (LET c == channels.items[i]
                  IN  IF /\ c.has_user
                         /\ FuzzyMatchTable[vtuber_name][c]
                         /\ AdaptiveTable["youtube"][c].score >= cutoff
                      THEN <<Performer("youtube", c, FALSE, 0,
                                       AdaptiveTable["youtube"][c].score, stage)>>
                      ELSE << >>)
    IN  IF ~channels.ok THEN << >> ELSE vtubers[Len(channels.items)]

youtube_traditional(vtuber_name, channels) ==
    youtube_cutoff_search(vtuber_name, channels, Pts(2), Absent)

find_vtuber_permissive(vtuber_name, channels) ==
    youtube_cutoff_search(vtuber_name, channels, Pts(1) + Half, "permissive")

\* `if not channels: return []` of the traditional search: it ends the search
\* before the permissive one.
traditional_returns_early(channels) == ~channels.ok \/ channels.items = << >>

(***************************************************************************)
(* State.  Three specifications share it: SpecAgg applies the aggregator   *)
(* to result lists, SpecStrategy runs one platform strategy step by step,  *)
(* SpecOrch runs search_vtuber over the two strategies.                    *)
(***************************************************************************)
(***************************************************************************)
(* A stage method on a batch in which one raw record lacks a field that    *)
(* the method reads with [].  The read raises KeyError, the handler of the *)
(* method catches it and the method returns [].                            *)
(***************************************************************************)
StageMethods == {<<"twitch", "fuzzy">>, <<"twitch", "content">>, <<"youtube", "fuzzy">>}

\* The fields each method reads with []: of the search item and of the user
\* detail on Twitch; of the search item in BaseScraper.find_vtuber_fuzzy,
\* which reads every other field with .get().
SubscriptedFields(method) ==
    IF method = <<"twitch", "fuzzy">> THEN {"id", "display_name", "login"}
    ELSE IF method = <<"twitch", "content">> THEN {"user_id", "display_name", "login"}
    ELSE {"id"}

WellFormed == [at |-> 0, field |-> "none"]

Shapes(method, n) ==
    {WellFormed} \cup {[at |-> i, field |-> f] : i \in 1..n, f \in SubscriptedFields(method)}

\* What the method requires of a candidate to return it.
stage_accepts(method, vtuber_name, c) ==
    IF method = <<"twitch", "fuzzy">>
    THEN /\ c.has_user
         /\ FuzzyMatchTable[vtuber_name][c]
         /\ IsVtuberAdaptiveTable["twitch"][c]
    ELSE IF method = <<"twitch", "content">>
    THEN /\ c.has_user
         /\ HasContentTable[c]
         /\ StrictMatchTable[vtuber_name][c]
         /\ AdaptiveTable["twitch"][c].score
                >= content_threshold(AdaptiveTable["twitch"][c].threshold)
    ELSE /\ c.has_user
         /\ FuzzyMatchTable[vtuber_name][c]
         /\ IsVtuberAdaptiveTable["youtube"][c]

\* Whether the method reaches the read of the missing field: the id is read
\* from every item before the loop, the display name once the user detail
\* was found (and, in the content stage, an indicator too), the login when
\* the result record is built.
stage_raises(method, vtuber_name, items, lacking) ==
    /\ lacking.at # 0
    /\ LET c == items[lacking.at]
       IN  IF lacking.field \in {"id", "user_id"} THEN TRUE
           ELSE IF lacking.field = "display_name"
           THEN IF method = <<"twitch", "content">>
                THEN c.has_user /\ HasContentTable[c]
                ELSE c.has_user
           ELSE stage_accepts(method, vtuber_name, c)

stage_method(method, vtuber_name, items, lacking) ==
    IF stage_raises(method, vtuber_name, items, lacking) THEN << >>
    ELSE IF method = <<"twitch", "fuzzy">>
    THEN twitch_find_vtuber_fuzzy(vtuber_name, Success(items))
    ELSE IF method = <<"twitch", "content">>
    THEN twitch_find_vtuber_by_content(vtuber_name, Success(items))
    ELSE base_find_vtuber_fuzzy(vtuber_name, "youtube", Success(items), TRUE)

(***************************************************************************)
(* The API client of a scraper instance: TwitchScraper._get_access_token,  *)
(* the head of _make_request, and the batches of get_user_info.            *)
(***************************************************************************)
Tokens == {"tok1", "tok2"}

\* The answers of the token endpoint: status 200 with a token, or another
\* status.
ExchangeOutcomes ==
    {[ok |-> TRUE, token |-> t] : t \in Tokens} \cup {[ok |-> FALSE, token |-> "none"]}

\* _get_access_token that posts to the token endpoint on every call.
get_access_token_uncached(cached, outcome) ==
    IF outcome.ok
    THEN [token |-> outcome.token, exchanged |-> 1, raised |-> FALSE]
    ELSE [token |-> cached, exchanged |-> 0, raised |-> TRUE]

\* _get_access_token, given self.access_token and the answer the token
\* endpoint would give: the token to use and to keep, whether an exchange
\* succeeded, whether the call raised.
get_access_token(cached, outcome) ==
    IF cached # "none"
    THEN [token |-> cached, exchanged |-> 0, raised |-> FALSE]
    ELSE IF outcome.ok
    THEN [token |-> outcome.token, exchanged |-> 1, raised |-> FALSE]
    ELSE [token |-> cached, exchanged |-> 0, raised |-> TRUE]

\* The head of _make_request: the Twitch one awaits _get_access_token, the
\* YouTube one adds the API key and has no token.
request_token(platform, cached, outcome) ==
    IF platform = "twitch" THEN get_access_token(cached, outcome)
    ELSE [token |-> cached, exchanged |-> 0, raised |-> FALSE]

\* "Twitch API allows up to 100 user IDs per request"
twitch_batch_size == 100

\* "YouTube API allows up to 50 channel IDs per request"
youtube_batch_size == 50

batch_size(platform) ==
    IF platform = "twitch" THEN twitch_batch_size ELSE youtube_batch_size

\* user_ids[i:i+size+1]: a batch one id too long, whose last id is sent
\* again by the next request.
batch_overlapping(user_ids, i, size) ==
    SubSeq(user_ids, i + 1, IF i + size + 1 < Len(user_ids) THEN i + size + 1 ELSE Len(user_ids))

\* user_ids[i:i+size]
batch(user_ids, i, size) ==
    SubSeq(user_ids, i + 1, IF i + size < Len(user_ids) THEN i + size ELSE Len(user_ids))

VARIABLES
    agg_orig,        \* the list the aggregator was first given
    agg_in,          \* the argument of the last aggregator call
    agg_out,         \* what the last aggregator call returned
    agg_op,          \* the last aggregator call
    agg_prev_op,     \* the call before it
    agg_platform,    \* the platform argument of the last sort_by_relevance
    strategy,        \* the strategy: "twitch" (TwitchScraper) or "youtube"
    query,           \* the vtuber_name argument
    debug_flag,      \* the debug argument
    entry,           \* the method called on the strategy
    pc,              \* where the strategy is
    tags_out,        \* what each stage returned
    fuzzy_out,
    content_out,
    enhanced,        \* what find_vtuber_enhanced returned
    returned,        \* what the entry method returned (its results)
    failed,          \* the stages and fallbacks that met a non-success answer
    entered,         \* the stages and fallbacks that ran
    seen_ids,        \* the ids of the accounts the answers held
    orch_pc,         \* where search_vtuber is
    branch,          \* per platform, the find_vtuber awaited by gather
    response,        \* what search_vtuber returned
    f_op,            \* the VTuberFilters method that was called
    f_channel_name,  \* its channel_name argument
    f_search_name,   \* its search_name argument
    f_match,         \* what the matcher returned
    f_record,        \* the channel_data argument of calculate_vtuber_score
    f_keyword,       \* the keyword added to the display name of f_record
    f_platform,      \* the platform argument of calculate_vtuber_score
    f_score,         \* the score of f_record
    f_score_kw,      \* the score of f_record with the keyword in its name
    f_ctx,           \* the context added to f_record: "live" or "tags"
    f_discovered_at, \* the 'discovered_at' of f_record
    f_adaptive,      \* calculate_adaptive_score of f_record
    f_adaptive_ctx,  \* calculate_adaptive_score of f_record with the context
    f_text,          \* the text argument of detect_language_focus
    f_focus,         \* the score detect_language_focus returned
    st_method,       \* the stage method called: <<platform, stage>>
    st_name,         \* its vtuber_name argument
    st_batch,        \* the raw records its search request retrieved
    st_live,         \* the raw records the live search of the fallback retrieved
    st_lacking,      \* which record of the batch lacks which field
    st_pc,           \* where the stage method is
    st_out,          \* what the stage method returned
    cl_platform,     \* the platform of the scraper instance
    access_token,    \* TwitchScraper.access_token
    token_exchanges, \* the token exchanges that succeeded
    bearer,          \* the token the last API request carried
    cl_pc,           \* where get_user_info is
    gi_ids,          \* the user_ids / channel_ids argument of get_user_info
    gi_i,            \* the loop variable i of get_user_info
    gi_sent,         \* the batches its detail requests carried, in order
    in_flight,       \* the detail requests not yet answered
    h_pc,            \* where the /search handler is
    h_body,          \* the body of the request
    h_outcome,       \* what the call of search_vtuber did
    h_reply,         \* the response of the handler
    au_pc,           \* the stage of TwitchScraper.find_vtuber that runs
    au_requests,     \* the API requests that stage has made
    au_found,        \* whether a stage returned records
    auth_failures    \* the token exchanges that failed

agg_vars == <<agg_orig, agg_in, agg_out, agg_op, agg_prev_op, agg_platform>>

request_vars == <<query, debug_flag>>

strategy_vars ==
    <<strategy, entry, pc, tags_out, fuzzy_out, content_out,
      enhanced, returned, failed, entered, seen_ids>>

orch_vars == <<orch_pc, branch, response>>

filter_vars ==
    <<f_op, f_channel_name, f_search_name, f_match,
      f_record, f_keyword, f_platform, f_score, f_score_kw,
      f_ctx, f_discovered_at, f_adaptive, f_adaptive_ctx, f_text, f_focus>>

stage_vars == <<st_method, st_name, st_batch, st_live, st_lacking, st_pc, st_out>>

client_vars ==
    <<cl_platform, access_token, token_exchanges, bearer,
      cl_pc, gi_ids, gi_i, gi_sent, in_flight>>

handler_vars == <<h_pc, h_body, h_outcome, h_reply>>

auth_vars == <<au_pc, au_requests, au_found, auth_failures>>

vars ==
    <<agg_vars, request_vars, strategy_vars, orch_vars, filter_vars, stage_vars,
      client_vars, handler_vars, auth_vars>>

None == "none"

(***************************************************************************)
(* The /search handler of app.py.  A request body is what get_json makes   *)
(* of it: it raises (the body is not JSON), or returns a value that is not *)
(* an object (null, a list), or returns an object whose 'query' is         *)
(* missing, null, a number or a string.                                    *)
(***************************************************************************)
Body(kind, type, text) == [kind |-> kind, type |-> type, text |-> text]

QueryTexts == {"", " ", "  ", "Kuro", " Kuro ", "Kuro Neko", "Random"}

Bodies ==
    {Body("invalid", None, ""), Body("not_object", None, "")}
        \cup {Body("object", type, "") : type \in {"missing", "null", "number"}}
        \cup {Body("object", "string", text) : text \in QueryTexts}

Query(raised, value) == [raised |-> raised, value |-> value]

\* data.get('query', '') without the strip.
request_query_unstripped(body) ==
    IF body.kind = "invalid" THEN Query("BadRequest", "")
    ELSE IF body.kind = "not_object" THEN Query("AttributeError", "")
    ELSE IF body.type = "missing" THEN Query(None, "")
    ELSE IF body.type = "string" THEN Query(None, body.text)
    ELSE Query("AttributeError", "")

\* data = request.get_json(); vtuber_name = data.get('query', '').strip()
request_query(body) ==
    IF body.kind = "invalid" THEN Query("BadRequest", "")
    ELSE IF body.kind = "not_object" THEN Query("AttributeError", "")
    ELSE IF body.type = "missing" THEN Query(None, Strip(""))
    ELSE IF body.type = "string" THEN Query(None, Strip(body.text))
    ELSE Query("AttributeError", "")

\* A record of the mapping search_vtuber returns, as the handler reads it:
\* vtuber['name'] and vtuber['url'] are subscripted, the rest is read with
\* .get().
CoreRecords ==
    {[has_name |-> TRUE, has_url |-> TRUE], [has_name |-> FALSE, has_url |-> TRUE],
     [has_name |-> TRUE, has_url |-> FALSE]}

MaxCoreList == 2

\* What the call of search_vtuber does: it returns a mapping, or raises
\* (the scrapers are built outside its try block).
CoreOutcomes ==
    {[raised |-> "Exception", twitch |-> << >>, youtube |-> << >>]}
        \cup [raised : {None},
              twitch : SeqsUpTo(CoreRecords, MaxCoreList),
              youtube : SeqsUpTo(CoreRecords, MaxCoreList)]

Reply(status, success, error, total_results, invoked, raised) ==
    [status |-> status, success |-> success, error |-> error,
     total_results |-> total_results, invoked |-> invoked, raised |-> raised]

ServerError(raised, invoked) ==
    Reply(500, FALSE, "Search failed: " \o raised, 0, invoked, raised)

\* The loops that build formatted_results.
format_results(results) ==
    LET records == results.twitch \o results.youtube
    IN  IF \E i \in 1..Len(records) : ~records[i].has_name \/ ~records[i].has_url
        THEN ServerError("KeyError", TRUE)
        ELSE Reply(200, TRUE, "", Len(records), TRUE, None)

\* search(): the response and its status.
search(body, outcome) ==
    LET q == request_query(body)
    IN  IF q.raised # None THEN ServerError(q.raised, FALSE)
        ELSE IF q.value = ""
        THEN Reply(400, FALSE, "Please provide a VTuber name", 0, FALSE, None)
        ELSE IF outcome.raised # None THEN ServerError(outcome.raised, TRUE)
        ELSE format_results(outcome)

AggIdle ==
    /\ agg_orig = << >> /\ agg_in = << >> /\ agg_out = << >>
    /\ agg_op = None /\ agg_prev_op = None /\ agg_platform = None

StrategyIdle ==
    /\ strategy = None /\ entry = None /\ pc = None
    /\ tags_out = << >> /\ fuzzy_out = << >> /\ content_out = << >>
    /\ enhanced = << >> /\ returned = << >> /\ failed = {} /\ entered = {}
    /\ seen_ids = {}

OrchIdle == orch_pc = None /\ branch = << >> /\ response = None

NoRecord == Account("", "", "", "", << >>, FALSE, "", 0, <<0, 0>>, FALSE)

NoMatcherCall == f_channel_name = "" /\ f_search_name = "" /\ f_match = FALSE

NoScoreCall ==
    /\ f_record = NoRecord /\ f_keyword = "" /\ f_platform = None
    /\ f_score = 0 /\ f_score_kw = 0

NoAdaptive == [score |-> 0, threshold |-> 0]

NoAdaptiveCall ==
    /\ f_ctx = None /\ f_discovered_at = None
    /\ f_adaptive = NoAdaptive /\ f_adaptive_ctx = NoAdaptive

NoFocusCall == f_text = None /\ f_focus = 0

FiltersIdle ==
    /\ f_op = None
    /\ NoMatcherCall /\ NoScoreCall /\ NoAdaptiveCall /\ NoFocusCall

ClientIdle ==
    /\ cl_platform = None /\ access_token = None /\ token_exchanges = 0
    /\ bearer = None /\ cl_pc = None /\ gi_ids = << >> /\ gi_i = 0
    /\ gi_sent = << >> /\ in_flight = 0

NoReply == Reply(0, FALSE, "", 0, FALSE, None)

NoOutcome == [raised |-> None, twitch |-> << >>, youtube |-> << >>]

HandlerIdle ==
    /\ h_pc = None /\ h_body = Body(None, None, "")
    /\ h_outcome = NoOutcome /\ h_reply = NoReply

AuthIdle ==
    au_pc = None /\ au_requests = 0 /\ au_found = FALSE /\ auth_failures = 0

StageIdle ==
    /\ st_method = None /\ st_name = None /\ st_batch = << >> /\ st_live = << >>
    /\ st_lacking = WellFormed /\ st_pc = None /\ st_out = << >>

(***************************************************************************)
(* SpecAgg: remove_duplicates and sort_by_relevance applied, in any order  *)
(* and any number of times, to a list of result records.                   *)
(***************************************************************************)
\* The longest list the aggregator is given.
MaxLen == 3

AggRecord(id, score, is_live) ==
    [platform |-> "twitch", id |-> id, name |-> id, is_live |-> is_live,
     broadcaster_type |-> "", viewer_count |-> 0, subscriber_count |-> 0,
     view_count |-> 0, vtuber_score |-> score, search_stage |-> "fuzzy"]

AggRecords ==
    {AggRecord(id, score, is_live) :
        id \in {"a", "b"}, score \in {Pts(2), Pts(4)}, is_live \in BOOLEAN}

InitAgg ==
    /\ agg_orig \in SeqsUpTo(AggRecords, MaxLen)
    /\ agg_in = agg_orig
    /\ agg_out = agg_orig
    /\ agg_op = None
    /\ agg_prev_op = None
    /\ agg_platform = None
    /\ query = None /\ debug_flag = FALSE
    /\ StrategyIdle
    /\ OrchIdle
    /\ FiltersIdle
    /\ StageIdle
    /\ ClientIdle
    /\ HandlerIdle
    /\ AuthIdle

RemoveDuplicates ==
    /\ agg_in' = agg_out
    /\ agg_out' = remove_duplicates(agg_out)
    /\ agg_prev_op' = agg_op
    /\ agg_op' = "remove_duplicates"
    /\ UNCHANGED <<agg_orig, agg_platform, request_vars, filter_vars,
                   strategy_vars, orch_vars, stage_vars, client_vars,
                   handler_vars, auth_vars>>

SortByRelevance ==
    \E p \in Platforms :
        /\ agg_in' = agg_out
        /\ agg_out' = sort_by_relevance(agg_out, p)
        /\ agg_prev_op' = agg_op
        /\ agg_op' = "sort_by_relevance"
        /\ agg_platform' = p
        /\ UNCHANGED <<agg_orig, request_vars, filter_vars, strategy_vars,
                       orch_vars, stage_vars, client_vars, handler_vars,
                       auth_vars>>

NextAgg == RemoveDuplicates \/ SortByRelevance

SpecAgg == InitAgg /\ [][NextAgg]_vars

(***************************************************************************)
(* Claims on the aggregator (SpecAgg).                                     *)
(***************************************************************************)
IdsOf(list) == {list[i].id : i \in 1..Len(list)}

\* The position in list of the record that must survive for id: the first of
\* those holding the highest vtuber_score among the records with that id.
SurvivorIndex(list, id) ==
    CHOOSE i \in 1..Len(list) :
        /\ list[i].id = id
        /\ \A j \in 1..Len(list) :
               list[j].id = id =>
                   \/ list[j].vtuber_score < list[i].vtuber_score
                   \/ list[j].vtuber_score = list[i].vtuber_score /\ i <= j

C9_DedupeIdempotent ==
    (agg_op = "remove_duplicates" /\ agg_prev_op = "remove_duplicates") =>
        agg_out = agg_in

\* remove_duplicates ran twice in a row, the first run having dropped
\* records and left more than one.
C9_Witness ==
    /\ agg_op = "remove_duplicates"
    /\ agg_prev_op = "remove_duplicates"
    /\ agg_out = agg_in
    /\ Len(agg_out) > 1
    /\ Len(agg_out) < Len(agg_orig)
    /\ agg_out = remove_duplicates(agg_orig)

CountOf(list, r) == Cardinality({i \in 1..Len(list) : list[i] = r})

\* The records of list whose relevance is v, in the order of list.
WithRelevance(list, p, v) ==
    LET Hit(r) == relevance_score(r, p) = v
    IN  SelectSeq(list, Hit)

\* C10: sort_by_relevance returns a permutation of its input, ordered by
\* non-increasing relevance, in which records of equal relevance keep the
\* order they had in the input.
C10_SortStableDescending ==
    agg_op = "sort_by_relevance" =>
        /\ Len(agg_out) = Len(agg_in)
        /\ \A i \in 1..Len(agg_in) :
               CountOf(agg_out, agg_in[i]) = CountOf(agg_in, agg_in[i])
        /\ \A i \in 1..(Len(agg_out) - 1) :
               relevance_score(agg_out[i], agg_platform)
                   >= relevance_score(agg_out[i + 1], agg_platform)
        /\ \A i \in 1..Len(agg_in) :
               LET v == relevance_score(agg_in[i], agg_platform)
               IN  WithRelevance(agg_out, agg_platform, v)
                       = WithRelevance(agg_in, agg_platform, v)

\* sort_by_relevance moved a record ahead of others while two different
\* records of equal relevance stayed in their input order.
C10_Witness ==
    /\ agg_op = "sort_by_relevance"
    /\ agg_out # agg_in
    /\ \E i, j \in 1..Len(agg_in) :
           /\ i < j
           /\ agg_in[i] # agg_in[j]
           /\ relevance_score(agg_in[i], agg_platform)
                  = relevance_score(agg_in[j], agg_platform)
           /\ \E k, m \in 1..Len(agg_out) :
                  k < m /\ agg_out[k] = agg_in[i] /\ agg_out[m] = agg_in[j]

\* C11: sort_by_relevance applied, with the same platform argument, to a list
\* that sort_by_relevance returned gives that list back: rank(rank(x)) is
\* rank(x).
C11_SortIdempotent ==
    agg_op = "sort_by_relevance" =>
        sort_by_relevance(agg_out, agg_platform) = agg_out

\* sort_by_relevance reordered a list of three records that holds two
\* different records of equal relevance.
C11_Witness ==
    /\ agg_op = "sort_by_relevance"
    /\ Len(agg_in) = MaxLen
    /\ agg_out # agg_in
    /\ \E i, j \in 1..Len(agg_out) :
           /\ i < j
           /\ agg_out[i] # agg_out[j]
           /\ relevance_score(agg_out[i], agg_platform)
                  = relevance_score(agg_out[j], agg_platform)

(***************************************************************************)
(* SpecStrategy: one call of a method of one platform strategy, a step per *)
(* stage.  Each request is answered by what the step chooses from          *)
(* Responses.                                                              *)
(***************************************************************************)
\* The longest list one request of a fallback search returns.
MaxFallbackBatch == 2

Stages == {"tags", "fuzzy", "content"}

Fallbacks == {"traditional", "permissive"}

\* hasattr(self, 'find_vtuber_by_tags')
has_tag_stage(p) == p = "twitch"

Entries(p) ==
    IF p = "youtube" THEN {"find_vtuber", "find_vtuber_by_content"} ELSE {"find_vtuber"}

FirstStage(p, e) ==
    IF e = "find_vtuber_by_content" THEN "CONTENT_SEARCH"
    ELSE IF has_tag_stage(p) THEN "TAG_SEARCH"
    ELSE "FUZZY_SEARCH"

InitStrategy ==
    /\ strategy \in Platforms
    /\ query \in Queries
    /\ debug_flag \in BOOLEAN
    /\ entry \in Entries(strategy)
    /\ pc = FirstStage(strategy, entry)
    /\ tags_out = << >> /\ fuzzy_out = << >> /\ content_out = << >>
    /\ enhanced = << >> /\ returned = << >>
    /\ failed = {} /\ entered = {} /\ seen_ids = {}
    /\ AggIdle
    /\ OrchIdle
    /\ FiltersIdle
    /\ StageIdle
    /\ ClientIdle
    /\ HandlerIdle
    /\ AuthIdle

Met(name, answers) ==
    IF \E a \in answers : ~a.ok THEN failed \cup {name} ELSE failed

Retrieved(answers) ==
    seen_ids \cup UNION {{a.items[i].id : i \in 1..Len(a.items)} : a \in answers}

\* Stage 1 of find_vtuber_enhanced.
TagSearch ==
    /\ pc = "TAG_SEARCH"
    /\ \E streams \in Responses(strategy, MaxBatch) :
           /\ tags_out' = find_vtuber_by_tags(query, debug_flag, streams)
           /\ failed' = Met("tags", {streams})
           /\ seen_ids' = Retrieved({streams})
    /\ entered' = entered \cup {"tags"}
    /\ pc' = "FUZZY_SEARCH"
    /\ UNCHANGED <<strategy, entry, fuzzy_out, content_out, enhanced, returned>>
    /\ UNCHANGED <<agg_vars, request_vars, filter_vars, orch_vars, stage_vars,
                   client_vars, handler_vars, auth_vars>>

\* Stage 2 of find_vtuber_enhanced.
FuzzySearch ==
    /\ pc = "FUZZY_SEARCH"
    /\ \E channels \in Responses(strategy, MaxBatch), ids_are_str \in IdShapes(strategy) :
           /\ fuzzy_out' =
                  IF strategy = "twitch"
                  THEN twitch_find_vtuber_fuzzy(query, channels)
                  ELSE base_find_vtuber_fuzzy(query, strategy, channels, ids_are_str)
           /\ failed' = Met("fuzzy", {channels})
           /\ seen_ids' = Retrieved({channels})
    /\ entered' = entered \cup {"fuzzy"}
    /\ pc' = "CONTENT_SEARCH"
    /\ UNCHANGED <<strategy, entry, tags_out, content_out, enhanced, returned>>
    /\ UNCHANGED <<agg_vars, request_vars, filter_vars, orch_vars, stage_vars,
                   client_vars, handler_vars, auth_vars>>

\* `if results: return results` of find_vtuber, on what find_vtuber_enhanced
\* returned.
AfterEnhanced(sorted_results) ==
    /\ enhanced' = sorted_results
    /\ returned' = sorted_results
    /\ pc' = IF sorted_results # << >> THEN "DONE" ELSE "FALLBACK_TRADITIONAL"

\* TwitchScraper: stage 3, then the rest of find_vtuber_enhanced.
TwitchContentSearch ==
    /\ pc = "CONTENT_SEARCH"
    /\ strategy = "twitch"
    /\ \E live_streams \in Responses(strategy, MaxBatch) :
           /\ content_out' = twitch_find_vtuber_by_content(query, live_streams)
           /\ failed' = Met("content", {live_streams})
           /\ seen_ids' = Retrieved({live_streams})
    /\ entered' = entered \cup {"content"}
    /\ AfterEnhanced(enhanced_results(tags_out, fuzzy_out, content_out', strategy))
    /\ UNCHANGED <<strategy, entry, tags_out, fuzzy_out>>
    /\ UNCHANGED <<agg_vars, request_vars, filter_vars, orch_vars, stage_vars,
                   client_vars, handler_vars, auth_vars>>

\* YouTubeScraper inside BaseScraper.find_vtuber_enhanced: the stage 3 call
\* and what follows it.
BaseContentCall ==
    /\ pc = "CONTENT_SEARCH"
    /\ strategy = "youtube"
    /\ entry = "find_vtuber"
    /\ AfterEnhanced(base_find_vtuber_enhanced(fuzzy_out, content_out, strategy))
    /\ UNCHANGED <<strategy, entry, tags_out, fuzzy_out, content_out,
                   failed, entered, seen_ids>>
    /\ UNCHANGED <<agg_vars, request_vars, filter_vars, orch_vars, stage_vars,
                   client_vars, handler_vars, auth_vars>>

\* YouTubeScraper.find_vtuber_by_content called on its own.
YoutubeContentSearch ==
    /\ pc = "CONTENT_SEARCH"
    /\ strategy = "youtube"
    /\ entry = "find_vtuber_by_content"
    /\ \E videos \in Responses(strategy, MaxBatch) :
           /\ content_out' = youtube_find_vtuber_by_content(query, videos)
           /\ failed' = Met("content", {videos})
           /\ seen_ids' = Retrieved({videos})
    /\ entered' = entered \cup {"content"}
    /\ returned' = content_out'
    /\ pc' = "DONE"
    /\ UNCHANGED <<strategy, entry, tags_out, fuzzy_out, enhanced>>
    /\ UNCHANGED <<agg_vars, request_vars, filter_vars, orch_vars, stage_vars,
                   client_vars, handler_vars, auth_vars>>

\* TwitchScraper.find_vtuber after an empty enhanced search.
TwitchTraditional ==
    /\ pc = "FALLBACK_TRADITIONAL"
    /\ strategy = "twitch"
    /\ \E live_channels, all_channels \in Responses(strategy, MaxFallbackBatch) :
           /\ returned' = twitch_traditional(query, live_channels, all_channels)
           /\ failed' = Met("traditional", {live_channels, all_channels})
           /\ seen_ids' = Retrieved({live_channels, all_channels})
    /\ entered' = entered \cup {"traditional"}
    /\ pc' = "DONE"
    /\ UNCHANGED <<strategy, entry, tags_out, fuzzy_out, content_out, enhanced>>
    /\ UNCHANGED <<agg_vars, request_vars, filter_vars, orch_vars, stage_vars,
                   client_vars, handler_vars, auth_vars>>

\* YouTubeScraper.find_vtuber after an empty enhanced search.
YoutubeTraditional ==
    /\ pc = "FALLBACK_TRADITIONAL"
    /\ strategy = "youtube"
    /\ \E channels \in Responses(strategy, MaxFallbackBatch) :
           LET vtubers == youtube_traditional(query, channels)
           IN  /\ failed' = Met("traditional", {channels})
               /\ seen_ids' = Retrieved({channels})
               /\ returned' = IF traditional_returns_early(channels) THEN << >> ELSE vtubers
               /\ pc' = IF traditional_returns_early(channels) \/ vtubers # << >>
                        THEN "DONE" ELSE "PERMISSIVE"
    /\ entered' = entered \cup {"traditional"}
    /\ UNCHANGED <<strategy, entry, tags_out, fuzzy_out, content_out, enhanced>>
    /\ UNCHANGED <<agg_vars, request_vars, filter_vars, orch_vars, stage_vars,
                   client_vars, handler_vars, auth_vars>>

\* YouTubeScraper.find_vtuber_permissive, called by find_vtuber.
Permissive ==
    /\ pc = "PERMISSIVE"
    /\ \E channels \in Responses(strategy, MaxFallbackBatch) :
           /\ returned' = find_vtuber_permissive(query, channels)
           /\ failed' = Met("permissive", {channels})
           /\ seen_ids' = Retrieved({channels})
    /\ entered' = entered \cup {"permissive"}
    /\ pc' = "DONE"
    /\ UNCHANGED <<strategy, entry, tags_out, fuzzy_out, content_out, enhanced>>
    /\ UNCHANGED <<agg_vars, request_vars, filter_vars, orch_vars, stage_vars,
                   client_vars, handler_vars, auth_vars>>

NextStrategy ==
    \/ TagSearch
    \/ FuzzySearch
    \/ TwitchContentSearch
    \/ BaseContentCall
    \/ YoutubeContentSearch
    \/ TwitchTraditional
    \/ YoutubeTraditional
    \/ Permissive

SpecStrategy == InitStrategy /\ [][NextStrategy]_vars

(***************************************************************************)
(* Claims on one platform strategy (SpecStrategy).                         *)
(***************************************************************************)
AccountOf(id) == CHOOSE c \in AllAccounts : c.id = id

StageOut(stage) ==
    IF stage = "tags" THEN tags_out
    ELSE IF stage = "fuzzy" THEN fuzzy_out
    ELSE content_out

FindVtuberDone == entry = "find_vtuber" /\ pc = "DONE"

\* C2: when find_vtuber has returned and a stage of its enhanced search met a
\* non-success answer, each such stage yielded the empty list, and every
\* candidate another stage accepted is in the list find_vtuber returned.
C2_StageFailureIsolated ==
    (FindVtuberDone /\ failed \cap Stages # {}) =>
        /\ \A stage \in failed \cap Stages : StageOut(stage) = << >>
        /\ \A stage \in Stages \ failed : IdsOf(StageOut(stage)) \subseteq IdsOf(returned)

\* A Twitch search in which one stage met a non-success answer and the two
\* others accepted candidates, all of them returned.
C2_Witness ==
    /\ FindVtuberDone
    /\ strategy = "twitch"
    /\ Cardinality(failed \cap Stages) = 1
    /\ \A stage \in Stages \ failed :
           /\ StageOut(stage) # << >>
           /\ IdsOf(StageOut(stage)) \subseteq IdsOf(returned)

\* C3: when find_vtuber of the Twitch strategy has returned, with debug off,
\* every candidate the tag stage accepted (a performer indicator among its
\* tags, its name loosely matching the query) is in the returned list with
\* search_stage "tags".
C3_TagHitReturnedAsTags ==
    (FindVtuberDone /\ strategy = "twitch" /\ ~debug_flag) =>
        \A i \in 1..Len(tags_out) :
            \E j \in 1..Len(returned) :
                /\ returned[j].id = tags_out[i].id
                /\ returned[j].search_stage = "tags"

\* C4: once find_vtuber_enhanced has returned, its list holds the id of every
\* candidate that the tag, fuzzy or content stage accepted.
C4_EnhancedKeepsEveryStage ==
    (entry = "find_vtuber" /\ pc \in {"FALLBACK_TRADITIONAL", "PERMISSIVE", "DONE"}) =>
        \A stage \in Stages : IdsOf(StageOut(stage)) \subseteq IdsOf(enhanced)

StagesAcceptedNone == \A stage \in Stages : StageOut(stage) = << >>

\* C5: when find_vtuber has returned: the traditional fallback ran exactly if
\* the three stages together accepted nothing; if it ran and the search
\* returned nothing, the permissive fallback ran too; and if a stage
\* accepted a candidate, no fallback ran.
C5_FallbackChain ==
    FindVtuberDone =>
        /\ ("traditional" \in entered) <=> StagesAcceptedNone
        /\ ("traditional" \in entered /\ returned = << >>) => "permissive" \in entered
        /\ ~StagesAcceptedNone => entered \cap Fallbacks = {}

FuzzyAccepted(r) == FuzzyMatchTable[query][AccountOf(r.id)]

AdaptiveOf(r) == AdaptiveTable[strategy][AccountOf(r.id)]

\* C6 as stated: every record of the fuzzy stage comes from a candidate whose
\* name passes the fuzzy matcher and whose adaptive score is at least the
\* threshold calculate_adaptive_score returns.
C6_FuzzyClearsThreshold ==
    \A i \in 1..Len(fuzzy_out) :
        /\ FuzzyAccepted(fuzzy_out[i])
        /\ AdaptiveOf(fuzzy_out[i]).score >= AdaptiveOf(fuzzy_out[i]).threshold

\* C6: every record of the fuzzy stage comes from a candidate whose name
\* passes the fuzzy matcher and whose adaptive score is at least the
\* threshold on Twitch, and at least 1.5 on YouTube.
C6_FuzzyClearsPlatformCutoff ==
    \A i \in 1..Len(fuzzy_out) :
        /\ FuzzyAccepted(fuzzy_out[i])
        /\ AdaptiveOf(fuzzy_out[i]).score >=
               (IF strategy = "youtube" THEN Pts(1) + Half
                ELSE AdaptiveOf(fuzzy_out[i]).threshold)

\* The YouTube fuzzy stage returned a record whose score is 1.5 or more and
\* below the threshold.
C6_Witness ==
    /\ strategy = "youtube"
    /\ \E i \in 1..Len(fuzzy_out) :
           /\ AdaptiveOf(fuzzy_out[i]).score >= Pts(1) + Half
           /\ AdaptiveOf(fuzzy_out[i]).score < AdaptiveOf(fuzzy_out[i]).threshold

ContentFloor(r) == Max2(AdaptiveOf(r).threshold - Pts(1), Pts(1))

\* C7 as stated: every record of the content stage comes from a candidate
\* whose title or description holds a performer-content indicator term, whose
\* name passes the strict matcher, and whose adaptive score is at least
\* max(threshold - 1, 1).
C7_ContentIndicatorStrictFloor ==
    \A i \in 1..Len(content_out) :
        /\ HasContentTable[AccountOf(content_out[i].id)]
        /\ StrictMatchTable[query][AccountOf(content_out[i].id)]
        /\ AdaptiveOf(content_out[i]).score >= ContentFloor(content_out[i])

\* C7: every record of the content stage comes from a candidate whose name
\* passes the strict matcher and whose adaptive score is at least
\* max(threshold - 1, 1); on Twitch its title or description also holds a
\* performer-content indicator term, on YouTube its score is at least 1.5.
C7_ContentStrictFloorPerPlatform ==
    \A i \in 1..Len(content_out) :
        /\ StrictMatchTable[query][AccountOf(content_out[i].id)]
        /\ AdaptiveOf(content_out[i]).score >= ContentFloor(content_out[i])
        /\ strategy = "twitch" => HasContentTable[AccountOf(content_out[i].id)]
        /\ strategy = "youtube" => AdaptiveOf(content_out[i]).score >= Pts(1) + Half

\* The YouTube content stage returned a record of a channel without any
\* indicator term.
C7_Witness ==
    /\ strategy = "youtube"
    /\ \E i \in 1..Len(content_out) : ~HasContentTable[AccountOf(content_out[i].id)]

\* The audience metric of a result record: the viewers of a Twitch record, the
\* views of a YouTube record.
AudienceHigh(r, p) ==
    IF p = "twitch" THEN r.viewer_count > 100 ELSE r.view_count > 10000

\* The relevance a record produced by stage is said to have.
StatedRelevance(r, stage, p) ==
    r.vtuber_score
    + (IF r.is_live THEN Pts(2) ELSE 0)
    + (IF r.broadcaster_type \in verified_types THEN Pts(1) ELSE 0)
    + (IF AudienceHigh(r, p) THEN Half ELSE 0)
    + (IF stage = "tags" THEN Pts(3) ELSE 0)

EnhancedDone ==
    entry = "find_vtuber" /\ pc \in {"FALLBACK_TRADITIONAL", "PERMISSIVE", "DONE"}

\* C12: once the stages of the enhanced search have run, the relevance that
\* sort_by_relevance gives each record a stage produced is vtuber_score, +2
\* if it is live, +1 if it is verified, +0.5 if its audience metric is high,
\* +3 if the tag stage produced it; so every tag stage record carries the +3.
C12_RelevanceFormula ==
    EnhancedDone =>
        \A stage \in Stages :
            \A i \in 1..Len(StageOut(stage)) :
                relevance_score(StageOut(stage)[i], strategy)
                    = StatedRelevance(StageOut(stage)[i], stage, strategy)

\* The channel "RandomGamerTV" described as "fps gameplay tutorials", without
\* title and tags, whatever its other signals.
IsRandomGamerTV(c) ==
    /\ c.display_name = "RandomGamerTV"
    /\ c.description = "fps gameplay tutorials"
    /\ c.title = ""
    /\ c.tags = << >>

HoldsRandomGamerTV(list) ==
    \E i \in 1..Len(list) : IsRandomGamerTV(AccountOf(list[i].id))

\* C16: in a search for "Random" on either platform, no stage output, no
\* enhanced list and no returned list (fallbacks included) holds the
\* candidate "RandomGamerTV" / "fps gameplay tutorials", whether it is live,
\* verified or widely watched.
C16_RandomGamerExcluded ==
    query = "Random" =>
        /\ \A stage \in Stages : ~HoldsRandomGamerTV(StageOut(stage))
        /\ ~HoldsRandomGamerTV(enhanced)
        /\ ~HoldsRandomGamerTV(returned)

\* A Twitch search for "Random" ended after the answers held both
\* RandomGamerTV accounts (one live, affiliate, 500 viewers) and the
\* traditional fallback ran.
C16_Witness ==
    /\ FindVtuberDone
    /\ strategy = "twitch"
    /\ query = "Random"
    /\ "traditional" \in entered
    /\ failed = {}
    /\ {"t3", "t6"} \subseteq seen_ids

\* C21: the list find_vtuber returns holds at most one record per id,
\* whatever the platform answered, answers that repeat an id included.
C21_OneRecordPerId ==
    FindVtuberDone =>
        \A i, j \in 1..Len(returned) : returned[i].id = returned[j].id => i = j

\* C30: the debug flag does not change the results: in every step of the
\* tag stage, for each answer of the platform the step is consistent with,
\* the ids the stage returns are the ids it returns for the same query and
\* the same answer with debug off.
C30_DebugDoesNotChangeIds ==
    [][\A streams \in Responses("twitch", MaxBatch) :
           (/\ pc = "TAG_SEARCH"
            /\ tags_out' = find_vtuber_by_tags(query, debug_flag, streams)
            /\ failed' = Met("tags", {streams})
            /\ seen_ids' = Retrieved({streams})) =>
               IdsOf(tags_out') = IdsOf(find_vtuber_by_tags(query, FALSE, streams))]_vars

(***************************************************************************)
(* SpecOrch: search_vtuber.  The two find_vtuber coroutines run under      *)
(* asyncio.gather(..., return_exceptions=True); each is one step here, the *)
(* whole find_vtuber of its strategy, against a platform that holds a list *)
(* of candidates and answers each kind of request with that list or with a *)
(* non-success status.                                                     *)
(***************************************************************************)
Requests(p) ==
    IF p = "twitch" THEN {"tags", "fuzzy", "content", "live", "channels"}
    ELSE {"fuzzy", "traditional", "permissive"}

Envs(p) ==
    [items : SeqsUpTo(Catalog(p), MaxBatch), down : SUBSET Requests(p),
     ids_are_str : IdShapes(p)]

Answer(env, request) == IF request \in env.down THEN Failure ELSE Success(env.items)

\* TwitchScraper.find_vtuber.
twitch_find_vtuber(vtuber_name, debug, env) ==
    LET results == enhanced_results(
                       find_vtuber_by_tags(vtuber_name, debug, Answer(env, "tags")),
                       twitch_find_vtuber_fuzzy(vtuber_name, Answer(env, "fuzzy")),
                       twitch_find_vtuber_by_content(vtuber_name, Answer(env, "content")),
                       "twitch")
    IN  IF results # << >> THEN results
        ELSE twitch_traditional(vtuber_name, Answer(env, "live"), Answer(env, "channels"))

\* YouTubeScraper.find_vtuber.
youtube_find_vtuber(vtuber_name, debug, env) ==
    LET results == base_find_vtuber_enhanced(
                       base_find_vtuber_fuzzy(vtuber_name, "youtube",
                                              Answer(env, "fuzzy"), env.ids_are_str),
                       << >>, "youtube")
        channels == Answer(env, "traditional")
        vtubers == youtube_traditional(vtuber_name, channels)
    IN  IF results # << >> THEN results
        ELSE IF traditional_returns_early(channels) THEN << >>
        ELSE IF vtubers # << >> THEN vtubers
        ELSE find_vtuber_permissive(vtuber_name, Answer(env, "permissive"))

find_vtuber(p, vtuber_name, debug, env) ==
    IF p = "twitch" THEN twitch_find_vtuber(vtuber_name, debug, env)
    ELSE youtube_find_vtuber(vtuber_name, debug, env)

\* What find_vtuber can return, with whether the platform answered no
\* request at all (unreachable) and whether it answered every one (healthy).
FindVtuberOutcomes ==
    [p \in Platforms |-> [q \in Queries |-> [d \in BOOLEAN |->
        {[value |-> find_vtuber(p, q, d, env),
          unreachable |-> env.down = Requests(p),
          healthy |-> env.down = {}] : env \in Envs(p)}]]]

Other(p) == CHOOSE o \in Platforms : o # p

Pending == [status |-> "pending", value |-> << >>, unreachable |-> FALSE, healthy |-> FALSE]

\* search_vtuber with gather left to raise the first exception: the handler
\* around it returns the mapping of an overall failure.
search_vtuber_result_raising(twitch_results, youtube_results) ==
    IF "raised" \in {twitch_results.status, youtube_results.status}
    THEN [twitch |-> << >>, youtube |-> << >>, total_results |-> 0]
    ELSE [twitch |-> twitch_results.value,
          youtube |-> youtube_results.value,
          total_results |-> Len(twitch_results.value) + Len(youtube_results.value)]

\* search_vtuber counting the Twitch list alone.
search_vtuber_result_twitch_total(twitch_results, youtube_results) ==
    LET ListOf(r) == IF r.status = "raised" THEN << >> ELSE r.value
    IN  [twitch |-> ListOf(twitch_results),
         youtube |-> ListOf(youtube_results),
         total_results |-> Len(ListOf(twitch_results))]

\* The handling of the gathered results: an exception becomes [], then the
\* mapping is built.
search_vtuber_result(twitch_results, youtube_results) ==
    LET ListOf(r) == IF r.status = "raised" THEN << >> ELSE r.value
    IN  [twitch |-> ListOf(twitch_results),
         youtube |-> ListOf(youtube_results),
         total_results |-> Len(ListOf(twitch_results)) + Len(ListOf(youtube_results))]

\* search_vtuber has not returned: there is no mapping yet.
NotReturned == [returned |-> FALSE]

InitOrch ==
    /\ query \in Queries
    /\ debug_flag \in BOOLEAN
    /\ orch_pc = "gather"
    /\ branch = [p \in Platforms |-> Pending]
    /\ response = NotReturned
    /\ AggIdle
    /\ StrategyIdle
    /\ FiltersIdle
    /\ StageIdle
    /\ ClientIdle
    /\ HandlerIdle
    /\ AuthIdle

\* A find_vtuber coroutine returns its list.
BranchReturns ==
    /\ orch_pc = "gather"
    /\ \E p \in Platforms :
           /\ branch[p].status = "pending"
           /\ \E o \in FindVtuberOutcomes[p][query][debug_flag] :
                  branch' = [branch EXCEPT ![p] =
                                [status |-> "returned", value |-> o.value,
                                 unreachable |-> o.unreachable, healthy |-> o.healthy]]
    /\ UNCHANGED <<orch_pc, response, agg_vars, request_vars, strategy_vars,
                   filter_vars, stage_vars, client_vars, handler_vars,
                   auth_vars>>

\* A find_vtuber coroutine ends with an exception, which gather hands over
\* as its result.
BranchRaises ==
    /\ orch_pc = "gather"
    /\ \E p \in Platforms :
           /\ branch[p].status = "pending"
           /\ branch' = [branch EXCEPT ![p] = [Pending EXCEPT !.status = "raised"]]
    /\ UNCHANGED <<orch_pc, response, agg_vars, request_vars, strategy_vars,
                   filter_vars, stage_vars, client_vars, handler_vars,
                   auth_vars>>

\* gather is complete: search_vtuber returns.
Return ==
    /\ orch_pc = "gather"
    /\ \A p \in Platforms : branch[p].status \in {"returned", "raised"}
    /\ response' = search_vtuber_result(branch["twitch"], branch["youtube"])
    /\ orch_pc' = "returned"
    /\ UNCHANGED <<branch, agg_vars, request_vars, strategy_vars, filter_vars,
                   stage_vars, client_vars, handler_vars, auth_vars>>

NextOrch == BranchReturns \/ BranchRaises \/ Return

SpecOrch == InitOrch /\ [][NextOrch]_vars

\* A find_vtuber coroutine awaits an answer that never comes: it neither
\* returns nor raises, and nothing in search_vtuber cancels it or bounds the
\* wait.
BranchHangs ==
    /\ orch_pc = "gather"
    /\ \E p \in Platforms :
           /\ branch[p].status = "pending"
           /\ branch' = [branch EXCEPT ![p] = [Pending EXCEPT !.status = "hung"]]
    /\ UNCHANGED <<orch_pc, response, agg_vars, request_vars, strategy_vars,
                   filter_vars, stage_vars, client_vars, handler_vars,
                   auth_vars>>

NextOrchHang == BranchReturns \/ BranchRaises \/ BranchHangs \/ Return

\* The event loop runs every coroutine that is ready: a pending branch takes
\* its next step, and search_vtuber resumes once gather is complete.
SpecOrchHang == InitOrch /\ [][NextOrchHang]_vars /\ WF_vars(NextOrchHang)

(***************************************************************************)
(* Claim on search_vtuber (SpecOrch).                                      *)
(***************************************************************************)
\* find_vtuber of p failed as a whole: it raised, or no request it sent got
\* a success answer.
BranchFailed(p) == branch[p].status = "raised" \/ branch[p].unreachable

BranchSucceeded(p) == branch[p].status = "returned" /\ branch[p].healthy

\* C1: when search_vtuber has returned and the find_vtuber of one platform
\* failed (it raised, or its requests met transport errors) while the other
\* succeeded, the mapping holds the empty list for the failing platform, the
\* other platform's list as find_vtuber returned it, and the sum of their
\* lengths as total_results.
C1_FailingPlatformIsolated ==
    orch_pc = "returned" =>
        \A p \in Platforms :
            (BranchFailed(p) /\ BranchSucceeded(Other(p))) =>
                /\ response[p] = << >>
                /\ response[Other(p)] = branch[Other(p)].value
                /\ response.total_results = Len(branch[Other(p)].value)

\* search_vtuber returned after one find_vtuber raised and the other
\* returned more than one record.
C1_Witness ==
    /\ orch_pc = "returned"
    /\ \E p \in Platforms :
           /\ branch[p].status = "raised"
           /\ BranchSucceeded(Other(p))
           /\ Len(branch[Other(p)].value) > 1
           /\ response[Other(p)] = branch[Other(p)].value

\* C22: the total_results of the mapping search_vtuber returns is the number
\* of records of its Twitch list plus the number of its YouTube list, also
\* when one branch or both failed.
C22_TotalIsSumOfLists ==
    orch_pc = "returned" =>
        response.total_results = Len(response.twitch) + Len(response.youtube)

\* search_vtuber returned a total above one that counts the records of one
\* platform, the find_vtuber of the other having raised.
C22_Witness ==
    /\ orch_pc = "returned"
    /\ response.total_results > 1
    /\ \E p \in Platforms :
           /\ branch[p].status = "raised"
           /\ response.total_results = Len(response[Other(p)])

(***************************************************************************)
(* Claim on the join of search_vtuber (SpecOrchHang).                      *)
(***************************************************************************)
\* C20: when one platform branch hangs forever and the other branch has
\* returned, search_vtuber eventually returns a mapping that holds the
\* returned branch's list under its platform.
C20_HungBranchDoesNotBlockJoin ==
    \A p \in Platforms :
        [](branch[p].status = "hung" /\ branch[Other(p)].status = "returned"
              => <>(/\ orch_pc = "returned"
                    /\ response[Other(p)] = branch[Other(p)].value))

(***************************************************************************)
(* SpecFilters: the methods of VTuberFilters applied to arguments drawn    *)
(* from small sets.                                                        *)
(***************************************************************************)
\* The names given to the matchers, as channel_name and as search_name.
MatcherNames ==
    {"tv", "official", "channel", "live", "stream", "gamer", "vtuber", "virtual",
     "Live", "Li", "Kuro Live", "Kuro Vtuber", "Virtual Gamer TV",
     "Mia", "Mia Streams", " MIA ", "Kuro!", ""}

\* The records given to calculate_vtuber_score: a display name, a title and a
\* description.
ScoreNames == {"Kuro", "Anon", "Mia", "Kuno", "Kuro Anime", "RandomGamerTV"}

ScoreTitles == {"", "anime stream"}

ScoreDescriptions == {"", "fps gameplay tutorials", "hololive vtuber", "irl face cam"}

ScoreRecord(display_name, title, description) ==
    Account("c", display_name, title, description, << >>, FALSE, "", 0, <<0, 0>>, TRUE)

ScoreRecords ==
    {ScoreRecord(n, t, d) : n \in ScoreNames, t \in ScoreTitles, d \in ScoreDescriptions}

\* The record with the keyword added to its display name, the other fields
\* as they were.
WithKeyword(c, keyword) == [c EXCEPT !.display_name = @ \o " " \o keyword]

\* The 'discovered_at' of a candidate: the key is absent, or it holds an ISO
\* timestamp: of the last 7 days, local and naive as datetime.now() writes
\* it ("recent") or in UTC with the suffix 'Z' ("recent_utc"); older than 7
\* days ("old"); or later than now ("future").
DiscoveredAts == {"absent", "recent", "recent_utc", "old", "future"}

\* `(datetime.now() - discovery_time).days < 7` on the parsed timestamp.  A
\* timestamp with 'Z' parses to an aware datetime, the subtraction from the
\* naive now() raises TypeError, and the handler passes.
recent_activity(discovered_at) == discovered_at \in {"recent", "future"}

AdaptiveDescriptions == {"", "hololive vtuber"}

\* Candidates with every combination of the signals that
\* calculate_adaptive_score reads.  A YouTube channel carries its subscriber
\* count as statistics.subscriberCount; 'subscriber_count' is the key of a
\* result record.
AdaptiveRecords ==
    {[Account("c", "Kuro", "", d, << >>, live, type, viewers, <<stat, 0>>, TRUE)
         EXCEPT !.subscriber_count = subs] :
        d \in AdaptiveDescriptions, live \in BOOLEAN, type \in {"", "partner"},
        viewers \in {0, 150}, stat \in {0, 5000}, subs \in {0, 5000}}

WithDiscoveredAt(c, discovered_at) ==
    [c EXCEPT !.discovered_recent = recent_activity(discovered_at)]

\* The record with corroborating context added, the other fields as they
\* were.
WithContext(c, ctx) ==
    IF ctx = "live" THEN [c EXCEPT !.is_live = TRUE]
    ELSE [c EXCEPT !.tags = <<"vtuber">>]

\* Texts for detect_language_focus: without locale signal, with vocabulary,
\* with one or several matching naming patterns, with the self-reference
\* phrase.
FocusTexts ==
    {"Kuro", "streamer from london", "roma", "Kuro_EN", "Kuro_English",
     "Kuro_ITA", "Kuro_Italian", "Kuro_Italia", "vtuber italiana",
     "english vtuber", "ITA_Kuro", "Kuro_UK british", "Kuro_ITA italiano"}

InitFilters ==
    /\ f_op = None
    /\ f_focus = 0
    /\ \/ /\ f_channel_name \in MatcherNames
          /\ f_search_name \in MatcherNames
          /\ f_record = NoRecord /\ f_keyword = "" /\ f_platform = None
          /\ f_ctx = None /\ f_discovered_at = None
          /\ f_text = None
       \/ /\ f_channel_name = "" /\ f_search_name = ""
          /\ f_record = NoRecord /\ f_keyword = "" /\ f_platform = None
          /\ f_ctx = None /\ f_discovered_at = None
          /\ f_text \in FocusTexts
       \/ /\ f_channel_name = "" /\ f_search_name = ""
          /\ f_record \in ScoreRecords
          /\ f_keyword \in vtuber_keywords_high
          /\ f_platform \in Platforms
          /\ f_ctx = None /\ f_discovered_at = None
          /\ f_text = None
       \/ /\ f_channel_name = "" /\ f_search_name = ""
          /\ f_record \in AdaptiveRecords
          /\ f_keyword = ""
          /\ f_platform \in Platforms
          /\ f_ctx \in {"live", "tags"}
          /\ f_discovered_at \in DiscoveredAts
          /\ f_text = None
    /\ f_adaptive = NoAdaptive /\ f_adaptive_ctx = NoAdaptive
    /\ f_match = FALSE
    /\ f_score = 0 /\ f_score_kw = 0
    /\ query = None /\ debug_flag = FALSE
    /\ AggIdle
    /\ StrategyIdle
    /\ OrchIdle
    /\ StageIdle
    /\ ClientIdle
    /\ HandlerIdle
    /\ AuthIdle

IsNameMatch ==
    /\ f_platform = None
    /\ f_text = None
    /\ f_op' = "is_name_match"
    /\ f_match' = is_name_match(f_channel_name, f_search_name)
    /\ UNCHANGED <<f_channel_name, f_search_name>>
    /\ UNCHANGED <<f_record, f_keyword, f_platform, f_score, f_score_kw>>
    /\ UNCHANGED <<f_ctx, f_discovered_at, f_adaptive, f_adaptive_ctx>>
    /\ UNCHANGED <<f_text, f_focus>>
    /\ UNCHANGED <<agg_vars, request_vars, strategy_vars, orch_vars,
                   stage_vars, client_vars, handler_vars, auth_vars>>

IsNameMatchFuzzy ==
    /\ f_platform = None
    /\ f_text = None
    /\ f_op' = "is_name_match_fuzzy"
    /\ f_match' = is_name_match_fuzzy(f_channel_name, f_search_name)
    /\ UNCHANGED <<f_channel_name, f_search_name>>
    /\ UNCHANGED <<f_record, f_keyword, f_platform, f_score, f_score_kw>>
    /\ UNCHANGED <<f_ctx, f_discovered_at, f_adaptive, f_adaptive_ctx>>
    /\ UNCHANGED <<f_text, f_focus>>
    /\ UNCHANGED <<agg_vars, request_vars, strategy_vars, orch_vars,
                   stage_vars, client_vars, handler_vars, auth_vars>>

\* calculate_vtuber_score on the record, and on the record with the keyword
\* added to its display name.
CalculateVtuberScore ==
    /\ f_platform # None
    /\ f_ctx = None
    /\ f_op' = "calculate_vtuber_score"
    /\ f_score' = calculate_vtuber_score(f_record, f_platform)
    /\ f_score_kw' = calculate_vtuber_score(WithKeyword(f_record, f_keyword), f_platform)
    /\ UNCHANGED <<f_channel_name, f_search_name, f_match>>
    /\ UNCHANGED <<f_record, f_keyword, f_platform>>
    /\ UNCHANGED <<f_ctx, f_discovered_at, f_adaptive, f_adaptive_ctx>>
    /\ UNCHANGED <<f_text, f_focus>>
    /\ UNCHANGED <<agg_vars, request_vars, strategy_vars, orch_vars,
                   stage_vars, client_vars, handler_vars, auth_vars>>

\* calculate_adaptive_score on the record, and on the record with the
\* context added.
CalculateAdaptiveScore ==
    /\ f_ctx # None
    /\ f_op' = "calculate_adaptive_score"
    /\ f_adaptive' =
           calculate_adaptive_score(WithDiscoveredAt(f_record, f_discovered_at),
                                    f_platform)
    /\ f_adaptive_ctx' =
           calculate_adaptive_score(
               WithContext(WithDiscoveredAt(f_record, f_discovered_at), f_ctx),
               f_platform)
    /\ UNCHANGED <<f_channel_name, f_search_name, f_match, f_score, f_score_kw>>
    /\ UNCHANGED <<f_record, f_keyword, f_platform, f_ctx, f_discovered_at>>
    /\ UNCHANGED <<f_text, f_focus>>
    /\ UNCHANGED <<agg_vars, request_vars, strategy_vars, orch_vars,
                   stage_vars, client_vars, handler_vars, auth_vars>>

DetectLanguageFocus ==
    /\ f_text # None
    /\ f_op' = "detect_language_focus"
    /\ f_focus' = detect_language_focus(f_text)
    /\ UNCHANGED <<f_channel_name, f_search_name, f_match, f_score, f_score_kw>>
    /\ UNCHANGED <<f_record, f_keyword, f_platform, f_ctx, f_discovered_at>>
    /\ UNCHANGED <<f_adaptive, f_adaptive_ctx, f_text>>
    /\ UNCHANGED <<agg_vars, request_vars, strategy_vars, orch_vars,
                   stage_vars, client_vars, handler_vars, auth_vars>>

NextFilters ==
    \/ IsNameMatch
    \/ IsNameMatchFuzzy
    \/ CalculateVtuberScore
    \/ CalculateAdaptiveScore
    \/ DetectLanguageFocus

SpecFilters == InitFilters /\ [][NextFilters]_vars

(***************************************************************************)
(* Claims on the matchers and the classifier (SpecFilters).                *)
(***************************************************************************)
StopList ==
    {"tv", "official", "channel", "live", "stream", "gamer", "vtuber", "virtual"}

\* C13: is_name_match_fuzzy returns False for every channel name when the
\* search name is, up to case, a single word of the stop list, also when the
\* channel name equals it, contains it or is contained in it.
C13_StopListedQueryRejected ==
    (f_op = "is_name_match_fuzzy" /\ Lower(f_search_name) \in StopList) => ~f_match

\* is_name_match compares the names lowered and stripped.
Folded(name) == Strip(Lower(name))

\* C14: is_name_match returns True when both names are the same string, and
\* when, lowered and stripped, the search name is a substring of the channel
\* name or the channel name a substring of the search name.
C14_StrictMatchContainment ==
    f_op = "is_name_match" =>
        /\ f_channel_name = f_search_name => f_match
        /\ Contains(Folded(f_channel_name), Folded(f_search_name)) => f_match
        /\ Contains(Folded(f_search_name), Folded(f_channel_name)) => f_match

\* is_name_match returned True for the channel name "Mia" and the search
\* name "Mia Streams".
C14_Witness ==
    /\ f_op = "is_name_match"
    /\ f_channel_name = "Mia"
    /\ f_search_name = "Mia Streams"
    /\ f_match


\* Every term that calculate_vtuber_score looks for.
ScoringTerms ==
    vtuber_keywords_high \cup vtuber_keywords_medium \cup vtuber_indicators
    \cup vtuber_agencies \cup negative_keywords \cup non_vtuber_indicators
    \cup italian_terms \cup english_terms \cup anime_terms \cup streaming_terms
    \cup {"gamer"}

\* A display name that holds no scoring term, no punctuation and no Japanese
\* character, and matches no language pattern.
NeutralName(name) ==
    /\ ~AnyIn(ScoringTerms, Lower(name))
    /\ ~HasPunct(Lower(name))
    /\ ~HasJapanese(name)
    /\ detect_language_focus(Lower(name)) = 0

\* C15: when the display name of a record holds no scoring term, the record
\* with a high-weight keyword added to its display name, its title and
\* description unchanged, has a strictly greater calculate_vtuber_score.
C15_HighKeywordRaisesScore ==
    (f_op = "calculate_vtuber_score" /\ NeutralName(f_record.display_name)) =>
        f_score_kw > f_score


\* C25: of two candidates on the same platform that differ only in
\* corroborating context (live status, tag hit), the one with the context
\* gets the lower threshold from calculate_adaptive_score.
C25_ContextLowersThreshold ==
    (/\ f_op = "calculate_adaptive_score"
     /\ WithContext(f_record, f_ctx) # f_record)
        => f_adaptive_ctx.threshold < f_adaptive.threshold

\* The subscriber count of a candidate, under either key.
SubscriberCount(c) == Max2(c.subscriber_count, c.stat_subscriberCount)

StatedAdaptiveScore(c, platform, discovered_at) ==
      calculate_vtuber_score(c, platform)
    + (IF c.is_live THEN Pts(1) ELSE 0)
    + (IF c.broadcaster_type \in verified_types THEN Pts(2) ELSE 0)
    + (IF platform = "twitch"
       THEN (IF c.viewer_count > 100 THEN Pts(1) ELSE 0)
       ELSE (IF SubscriberCount(c) > 1000 THEN Pts(1) ELSE 0))
    + (IF discovered_at \in {"recent", "recent_utc"} THEN Half ELSE 0)

\* C26: the score of calculate_adaptive_score is the base score plus 1 if
\* the candidate is live, plus 2 if it is verified, plus 1 if its viewer or
\* subscriber count exceeds the cutoff, plus 0.5 if its discovery timestamp
\* is within the last 7 days, on either platform; so it is never below the
\* base score.
C26_AdaptiveBonuses ==
    f_op = "calculate_adaptive_score" =>
        /\ f_adaptive.score =
               StatedAdaptiveScore(f_record, f_platform, f_discovered_at)
        /\ f_adaptive.score >= calculate_vtuber_score(f_record, f_platform)

\* The locale score as stated: 3 for vocabulary, 2 once for a matching
\* naming pattern, 1 for the self-reference phrase.
StatedLocaleScore(text, terms, IsLocalePattern(_), phrases) ==
    LET text_lower == Lower(text)
    IN    (IF AnyIn(terms, text_lower) THEN Pts(3) ELSE 0)
        + (IF \E i \in DOMAIN name_patterns :
                 /\ IsLocalePattern(name_patterns[i])
                 /\ PatternMatches(name_patterns[i], text_lower)
           THEN Pts(2) ELSE 0)
        + (IF AnyIn(phrases, text_lower) THEN Pts(1) ELSE 0)

\* C27: detect_language_focus returns the higher of the Italian and the
\* English locale score, each being 3 for locale vocabulary, plus 2 when a
\* locale naming pattern matches (once), plus 1 for the locale
\* self-reference phrase.
C27_LocaleScoresAlike ==
    f_op = "detect_language_focus" =>
        f_focus = Max2(StatedLocaleScore(f_text, italian_terms, IsItalianPattern,
                                         {"italiano", "italiana"}),
                       StatedLocaleScore(f_text, english_terms, IsEnglishPattern,
                                         {"english", "british", "american"}))

\* The two conditional penalties as stated, in half points.
ContentPenalty(c, platform) ==
    IF /\ AnyIn(non_vtuber_indicators, AllText(c, platform))
       /\ ~HasVtuberKeyword(AllText(c, platform))
    THEN Pts(3) ELSE 0

GamerPenalty(c, platform) ==
    IF /\ Contains(Lower(c.display_name), "gamer")
       /\ ~HasVtuberKeyword(AllText(c, platform))
    THEN Pts(2) ELSE 0

\* C28: the score calculate_vtuber_score returns is the sum of its other
\* contributions minus 3 if and only if a generic content term is in the
\* combined text and no performer keyword is, and minus 2 if and only if
\* the display name contains "gamer" and no performer keyword is in the
\* combined text; each penalty is taken at most once and both add up.
C28_ConditionalPenalties ==
    f_op = "calculate_vtuber_score" =>
        f_score = calculate_vtuber_score_no_penalty(f_record, f_platform)
                  - (IF AnyIn(negative_keywords, AllText(f_record, f_platform))
                     THEN Pts(5) ELSE 0)
                  - ContentPenalty(f_record, f_platform)
                  - GamerPenalty(f_record, f_platform)

\* calculate_vtuber_score was applied to a candidate named "RandomGamerTV"
\* whose description holds content terms and no performer keyword: both
\* penalties were taken.
C28_Witness ==
    /\ f_op = "calculate_vtuber_score"
    /\ f_record.display_name = "RandomGamerTV"
    /\ f_record.description = "fps gameplay tutorials"
    /\ ContentPenalty(f_record, f_platform) = Pts(3)
    /\ GamerPenalty(f_record, f_platform) = Pts(2)
    /\ f_score = calculate_vtuber_score_no_penalty(f_record, f_platform) - Pts(5)

(***************************************************************************)
(* SpecStage: one call of a stage method (TwitchScraper.find_vtuber_fuzzy, *)
(* TwitchScraper.find_vtuber_by_content, BaseScraper.find_vtuber_fuzzy on  *)
(* YouTube) whose search request retrieved a batch in which at most one    *)
(* raw record lacks a field.                                               *)
(***************************************************************************)
\* The longest batch a stage method retrieves.
MaxStageBatch == 2

\* The traditional search of TwitchScraper.find_vtuber, with well-formed
\* answers of its two search requests.
Traditional == <<"twitch", "traditional">>

InitStage ==
    /\ st_name \in Queries
    /\ \/ /\ st_method \in StageMethods
          /\ st_batch \in SeqsUpTo(Catalog(st_method[1]), MaxStageBatch)
          /\ st_live = << >>
          /\ st_lacking \in Shapes(st_method, Len(st_batch))
       \/ /\ st_method = Traditional
          /\ st_batch \in SeqsUpTo(Known("twitch"), MaxStageBatch)
          /\ st_live \in SeqsUpTo(Known("twitch"), MaxStageBatch)
          /\ st_lacking = WellFormed
    /\ st_pc = "called"
    /\ st_out = << >>
    /\ query = None /\ debug_flag = FALSE
    /\ AggIdle
    /\ StrategyIdle
    /\ OrchIdle
    /\ FiltersIdle
    /\ ClientIdle
    /\ HandlerIdle
    /\ AuthIdle

StageReturns ==
    /\ st_pc = "called"
    /\ st_method \in StageMethods
    /\ st_out' = stage_method(st_method, st_name, st_batch, st_lacking)
    /\ st_pc' = "returned"
    /\ UNCHANGED <<st_method, st_name, st_batch, st_live, st_lacking>>
    /\ UNCHANGED <<agg_vars, request_vars, strategy_vars, orch_vars,
                   filter_vars, client_vars, handler_vars, auth_vars>>

\* The traditional search returns: st_live is what search_live_streams
\* retrieved, st_batch what search_channels retrieved.
TraditionalReturns ==
    /\ st_pc = "called"
    /\ st_method = Traditional
    /\ st_out' = twitch_traditional(st_name, Success(st_live), Success(st_batch))
    /\ st_pc' = "returned"
    /\ UNCHANGED <<st_method, st_name, st_batch, st_live, st_lacking>>
    /\ UNCHANGED <<agg_vars, request_vars, strategy_vars, orch_vars,
                   filter_vars, client_vars, handler_vars, auth_vars>>

NextStage ==
    \/ StageReturns
    \/ TraditionalReturns

SpecStage == InitStage /\ [][NextStage]_vars

(***************************************************************************)
(* Claims on one stage method (SpecStage).                                 *)
(***************************************************************************)
\* C17: when a stage method has returned and one raw record of its batch
\* lacked a field the method expects, every other record of the batch that
\* meets the acceptance conditions of the stage is in the returned list.
C17_MalformedRecordSkipped ==
    (st_pc = "returned" /\ st_lacking # WellFormed) =>
        \A i \in 1..Len(st_batch) :
            (i # st_lacking.at /\ stage_accepts(st_method, st_name, st_batch[i])) =>
                st_batch[i].id \in IdsOf(st_out)


\* What the traditional search requires of a channel by name and score.
traditional_accepts(vtuber_name, c) ==
    /\ c.has_user
    /\ is_name_match(c.display_name, vtuber_name)
    /\ is_vtuber_channel(c, "twitch")

\* C29: when the Twitch traditional fallback has returned, every channel of
\* the live search or of the channel search whose user detail was found,
\* whose display name passes is_name_match for the query and whose score
\* reaches the Twitch threshold is in the returned list, live or not,
\* verified or not.
C29_TraditionalIncludesAccepted ==
    (st_pc = "returned" /\ st_method = Traditional) =>
        \A items \in {st_live, st_batch} :
            \A i \in 1..Len(items) :
                traditional_accepts(st_name, items[i]) =>
                    items[i].id \in IdsOf(st_out)

(***************************************************************************)
(* SpecClient: the API requests of one scraper instance.  A request made   *)
(* by a search method is one step; get_user_info is a step per await: a    *)
(* detail request is issued, then answered.                                *)
(***************************************************************************)
\* The longest list of ids get_user_info is given.
MaxIds == 101

\* The most token exchanges that are let succeed.
MaxExchanges == 3

AllowedOutcomes ==
    IF token_exchanges < MaxExchanges THEN ExchangeOutcomes
    ELSE {o \in ExchangeOutcomes : ~o.ok}

InitClient ==
    /\ cl_platform \in Platforms
    /\ access_token = None
    /\ token_exchanges = 0
    /\ bearer = None
    /\ cl_pc = "idle"
    /\ gi_ids = << >> /\ gi_i = 0 /\ gi_sent = << >>
    /\ in_flight = 0
    /\ query = None /\ debug_flag = FALSE
    /\ AggIdle
    /\ StrategyIdle
    /\ OrchIdle
    /\ FiltersIdle
    /\ StageIdle
    /\ HandlerIdle
    /\ AuthIdle

\* _make_request up to the GET: the token is obtained, and unless that
\* raised the request goes out with it.
SendRequest(outcome) ==
    LET r == request_token(cl_platform, access_token, outcome)
    IN  /\ access_token' = r.token
        /\ token_exchanges' = token_exchanges + r.exchanged
        /\ bearer' = IF r.raised THEN bearer ELSE r.token

\* A request of a search method (search_channels, search_live_streams, ...),
\* outside get_user_info.
SearchRequest ==
    /\ cl_pc \in {"idle", "returned", "raised"}
    /\ \E outcome \in AllowedOutcomes : SendRequest(outcome)
    /\ UNCHANGED <<cl_platform, cl_pc, gi_ids, gi_i, gi_sent, in_flight>>
    /\ UNCHANGED <<agg_vars, request_vars, strategy_vars, orch_vars,
                   filter_vars, stage_vars, handler_vars, auth_vars>>

\* get_user_info is called: `if not user_ids: return []`.
GetUserInfoCall ==
    /\ cl_pc \in {"idle", "returned", "raised"}
    /\ \E n \in 0..MaxIds :
           /\ gi_ids' = [k \in 1..n |-> k]
           /\ cl_pc' = IF n = 0 THEN "returned" ELSE "batching"
    /\ gi_i' = 0
    /\ gi_sent' = << >>
    /\ UNCHANGED <<cl_platform, access_token, token_exchanges, bearer, in_flight>>
    /\ UNCHANGED <<agg_vars, request_vars, strategy_vars, orch_vars,
                   filter_vars, stage_vars, handler_vars, auth_vars>>

\* The loop body up to the await: the batch is cut and its request issued.
IssueBatch ==
    /\ cl_pc = "batching"
    /\ \E outcome \in AllowedOutcomes :
           /\ SendRequest(outcome)
           /\ IF request_token(cl_platform, access_token, outcome).raised
              THEN /\ cl_pc' = "raised"
                   /\ UNCHANGED <<gi_sent, in_flight>>
              ELSE /\ cl_pc' = "awaiting"
                   /\ gi_sent' = Append(gi_sent, batch(gi_ids, gi_i, batch_size(cl_platform)))
                   /\ in_flight' = in_flight + 1
    /\ UNCHANGED <<cl_platform, gi_ids, gi_i>>
    /\ UNCHANGED <<agg_vars, request_vars, strategy_vars, orch_vars,
                   filter_vars, stage_vars, handler_vars, auth_vars>>

\* The detail request is answered.  On another status than 200 _make_request
\* returns None: the Twitch get_user_info raises on data.get, the YouTube one
\* reads `if data else []` and goes on.
BatchAnswered ==
    /\ cl_pc = "awaiting"
    /\ in_flight' = in_flight - 1
    /\ \E ok \in BOOLEAN :
           IF ~ok /\ cl_platform = "twitch"
           THEN cl_pc' = "raised" /\ UNCHANGED gi_i
           ELSE /\ gi_i' = gi_i + batch_size(cl_platform)
                /\ cl_pc' = IF gi_i' < Len(gi_ids) THEN "batching" ELSE "returned"
    /\ UNCHANGED <<cl_platform, access_token, token_exchanges, bearer, gi_ids, gi_sent>>
    /\ UNCHANGED <<agg_vars, request_vars, strategy_vars, orch_vars,
                   filter_vars, stage_vars, handler_vars, auth_vars>>

NextClient == SearchRequest \/ GetUserInfoCall \/ IssueBatch \/ BatchAnswered

SpecClient == InitClient /\ [][NextClient]_vars

(***************************************************************************)
(* Claims on the API client (SpecClient).                                  *)
(***************************************************************************)
\* C18: for a TwitchScraper instance, once access_token holds a token no step
\* changes it or lets another token exchange succeed; the token the last API
\* request carried is access_token; and at most one exchange ever succeeds.
C18_TokenCachedOnce ==
    [][cl_platform = "twitch" =>
          /\ access_token # None =>
                 /\ access_token' = access_token
                 /\ token_exchanges' = token_exchanges
          /\ bearer' # None => bearer' = access_token'
          /\ token_exchanges' <= 1]_vars

\* A TwitchScraper whose get_user_info returned after two detail requests,
\* one token exchange having succeeded.
C18_Witness ==
    /\ cl_platform = "twitch"
    /\ cl_pc = "returned"
    /\ Len(gi_sent) = 2
    /\ token_exchanges = 1
    /\ bearer = access_token
    /\ access_token \in Tokens


\* The batches of a list, one after the other.
RECURSIVE Flatten(_)
Flatten(batches) ==
    IF batches = << >> THEN << >> ELSE Head(batches) \o Flatten(Tail(batches))

\* ceil(n / size)
CeilDiv(n, size) == (n + size - 1) \div size

GetUserInfoEnded == cl_pc \in {"returned", "raised"}

\* What holds of the detail requests of get_user_info at every moment: at
\* most one is unanswered and none when the next batch is cut; each carries
\* between 1 and B ids; together they carry a prefix of the input list, in
\* input order; and there are at most ceil(n / B) of them.
BatchesSequentialInOrder ==
    /\ in_flight <= 1
    /\ cl_pc = "batching" => in_flight = 0
    /\ \A k \in 1..Len(gi_sent) :
           Len(gi_sent[k]) >= 1 /\ Len(gi_sent[k]) <= batch_size(cl_platform)
    /\ Flatten(gi_sent) = SubSeq(gi_ids, 1, Len(Flatten(gi_sent)))
    /\ Len(gi_sent) <= CeilDiv(Len(gi_ids), batch_size(cl_platform))

InitHandler ==
    /\ h_pc = "received"
    /\ h_body \in Bodies
    /\ h_outcome = NoOutcome
    /\ h_reply = NoReply
    /\ query = None
    /\ debug_flag = FALSE
    /\ AggIdle
    /\ StrategyIdle
    /\ OrchIdle
    /\ FiltersIdle
    /\ StageIdle
    /\ ClientIdle
    /\ AuthIdle

\* The handler runs to its return; search_vtuber, when it is called, does
\* what outcome says.
Search ==
    /\ h_pc = "received"
    /\ \E outcome \in CoreOutcomes :
           LET reply == search(h_body, outcome)
           IN  /\ h_reply' = reply
               /\ h_outcome' = IF reply.invoked THEN outcome ELSE NoOutcome
    /\ h_pc' = "responded"
    /\ UNCHANGED <<h_body, agg_vars, request_vars, strategy_vars, orch_vars,
                   filter_vars, stage_vars, client_vars, auth_vars>>

NextHandler == Search

SpecHandler == InitHandler /\ [][NextHandler]_vars

(***************************************************************************)
(* Claim on the /search handler (SpecHandler).                             *)
(***************************************************************************)
\* The query of the body is empty: the key is missing, or its text holds
\* nothing but spaces.
EmptyQuery(body) ==
    /\ body.kind = "object"
    /\ body.type \in {"missing", "string"}
    /\ \A i \in 1..Len(body.text) : Ch(body.text, i) = " "

\* C23: the handler answers an empty or blank query with status 400 and
\* without calling search_vtuber, answers with status 500 and an error
\* message whenever handling the request raised, and never answers an empty
\* query with success.
C23_EmptyQueryRejected ==
    h_pc = "responded" =>
        /\ EmptyQuery(h_body) => h_reply.status = 400 /\ ~h_reply.invoked
        /\ h_reply.raised # None => h_reply.status = 500 /\ h_reply.error # ""
        /\ EmptyQuery(h_body) => ~h_reply.success /\ h_reply.status # 200

\* A query of two spaces was answered with 400, search_vtuber not called.
C23_Witness ==
    /\ h_pc = "responded"
    /\ h_body = Body("object", "string", "  ")
    /\ h_reply.status = 400
    /\ ~h_reply.invoked

(***************************************************************************)
(* SpecAuth: the token exchanges of one TwitchScraper.find_vtuber call.    *)
(* Each stage and the traditional search make their API requests one after *)
(* the other through _make_request; an exception ends the stage in its     *)
(* handler, which returns [].                                              *)
(***************************************************************************)
MaxStageRequests == 4

\* The stages of find_vtuber in the order they run: the three of
\* find_vtuber_enhanced, then the traditional search.
auth_stages ==
    <<"TAG_SEARCH", "FUZZY_SEARCH", "CONTENT_SEARCH", "FALLBACK_TRADITIONAL">>

\* What follows a stage: the next one; after the content stage
\* `if results: return results`, else the traditional search.
stage_after(stage, found) ==
    IF stage = "TAG_SEARCH" THEN "FUZZY_SEARCH"
    ELSE IF stage = "FUZZY_SEARCH" THEN "CONTENT_SEARCH"
    ELSE IF stage = "CONTENT_SEARCH" /\ ~found THEN "FALLBACK_TRADITIONAL"
    ELSE "DONE"

InitAuth ==
    /\ cl_platform = "twitch"
    /\ access_token = None
    /\ token_exchanges = 0
    /\ bearer = None
    /\ cl_pc = None /\ gi_ids = << >> /\ gi_i = 0 /\ gi_sent = << >>
    /\ in_flight = 0
    /\ au_pc = auth_stages[1]
    /\ au_requests = 0
    /\ au_found = FALSE
    /\ auth_failures = 0
    /\ query = None /\ debug_flag = FALSE
    /\ AggIdle
    /\ StrategyIdle
    /\ OrchIdle
    /\ FiltersIdle
    /\ StageIdle
    /\ HandlerIdle

\* The running stage makes an API request.  When the token exchange fails,
\* _get_access_token raises and the handler of the stage returns [].
StageRequest ==
    /\ au_pc \in Range(auth_stages)
    /\ au_requests < MaxStageRequests
    /\ \E outcome \in ExchangeOutcomes :
           LET r == request_token(cl_platform, access_token, outcome)
           IN  /\ SendRequest(outcome)
               /\ IF r.raised
                  THEN /\ auth_failures' = auth_failures + 1
                       /\ au_pc' = stage_after(au_pc, au_found)
                       /\ au_requests' = 0
                  ELSE /\ auth_failures' = auth_failures
                       /\ au_pc' = au_pc
                       /\ au_requests' = au_requests + 1
    /\ UNCHANGED <<au_found, cl_platform, cl_pc, gi_ids, gi_i, gi_sent, in_flight>>
    /\ UNCHANGED <<agg_vars, request_vars, strategy_vars, orch_vars,
                   filter_vars, stage_vars, handler_vars>>

\* The running stage returns after at least one request, with records or
\* without.
StageEnds ==
    /\ au_pc \in Range(auth_stages)
    /\ au_requests > 0
    /\ \E found \in BOOLEAN :
           /\ au_found' = (au_found \/ found)
           /\ au_pc' = stage_after(au_pc, au_found')
    /\ au_requests' = 0
    /\ UNCHANGED <<auth_failures, client_vars>>
    /\ UNCHANGED <<agg_vars, request_vars, strategy_vars, orch_vars,
                   filter_vars, stage_vars, handler_vars>>

NextAuth == StageRequest \/ StageEnds

SpecAuth == InitAuth /\ [][NextAuth]_vars

(***************************************************************************)
(* Claim on the token exchanges of find_vtuber (SpecAuth).                 *)
(***************************************************************************)
\* C24: during one find_vtuber call of a TwitchScraper instance the token
\* exchange fails at most once.
C24_AuthFailureRaisedOnce == auth_failures <= 1

=============================================================================
